---- MODULE Spec2Model ----
(***************************************************************************)
(* Dialogue controller, conversation-state table and upload engine of the  *)
(* YouTube uploader bot (src/bot.py, src/video_handler.py,                 *)
(* src/youtube_client.py, src/database.py).                                *)
(*                                                                         *)
(* Spec        the dialogue: every command, media and text handler of      *)
(*             YouTubeBot and the upload operation of VideoHandler, with   *)
(*             the replies recorded.  A user sends the next event when the *)
(*             upload has returned, except /cancel, sent at any time.      *)
(* SpecRace    the same handlers as tasks of one cooperative event loop,   *)
(*             events arriving while uploads run; replies not recorded.    *)
(* SpecEngine  one call of YouTubeClient.upload_video with its chunk /     *)
(*             retry loop, the inputs drawn from small sets.               *)
(* SpecNoFault, SpecShort                                                  *)
(*             the dialogue with short texts: with collaborators that do   *)
(*             not fail, and with collaborators that do.                   *)
(* SpecAuthRace  the authorization handlers as tasks that are suspended in *)
(*             the store and resumed.                                      *)
(* SpecRefresh   repeated calls of refresh_token_if_needed.                *)
(* SpecUpload    one call of upload_video_to_youtube, step by step, with   *)
(*             the engine call as its transfer task.                       *)
(***************************************************************************)
EXTENDS Integers, Sequences, FiniteSets, Bags, TLC

VARIABLES
    env,            \* the environment variable ALLOWED_USERS, a string
    c_pc,           \* YouTubeBot.__init__: "unread" before line 35, then "parsed"
    c_ask,          \* the last answer of is_user_allowed: [uid, allowed]
    allowed_users,  \* YouTubeBot.allowed_users (parsed once at construction)
    user_states,    \* YouTubeBot.user_states : user id -> state dict
    tokens,         \* db.oauth_tokens : user id -> credential present?
    uploads,        \* db.uploads : bag of upload records
    jobs,           \* running upload_video_to_youtube calls (bag of frames)
    disk,           \* VideoHandler.temp_dir: the paths of the files in it
    last,           \* the last reply sent: [uid, ev, msg]
    calls,          \* the store, OAuth and engine calls of the last handler step
    trace,          \* whether last records the replies
    faults,         \* whether the collaborators (store, chat, platform) can fail
    e_pc,           \* upload_video: position
    e_in,           \* upload_video: arguments of the call
    e_body,         \* upload_video: metadata body handed to videos().insert
    e_retry,        \* upload_video: local variable retry
    e_result,       \* upload_video: returned value
    e_attempts,     \* number of next_chunk() calls made
    e_outs,         \* summary of the transport's answers so far
    e_sleeps,       \* the backoff delays slept so far
    e_data,         \* upload_video: the token_data dict it was passed
    e_refresh,      \* what refresh_token_if_needed did: "none", "ok", "failed"
    pending,        \* handlers suspended in a call to the store, to be resumed
    r_data,         \* refresh_token_if_needed: the token_data dict of the caller
    r_expired,      \* whether the access token in r_data has expired
    r_calls,        \* calls of refresh_token_if_needed made
    r_trips,        \* refresh round trips made in all
    r_last,         \* the last call: [before, expired, trips, raised, issued]
    r_streak,       \* consecutive calls that found nothing to refresh
    u_pc,           \* upload_video_to_youtube: position
    u_store,        \* db.oauth_tokens: the user's token_data, <<>> if none
    u_data,         \* upload_video_to_youtube: local token_data, <<>> if None
    u_disk,         \* the temporary file: "none", "empty", "full"
    u_started,      \* the progress values whose announcement was started
    u_failed,       \* the progress values whose announcement failed
    u_other,        \* whether a call other than a progress update failed
    u_vid           \* the video id _upload_with_progress returned

cfgVars == <<env, c_pc, c_ask>>
botVars == <<env, c_pc, c_ask, allowed_users, user_states, tokens, uploads, jobs, disk,
            last, calls, trace, faults>>
engVars == <<e_pc, e_in, e_body, e_retry, e_result, e_attempts, e_outs, e_sleeps,
            e_data, e_refresh>>
refVars == <<r_data, r_expired, r_calls, r_trips, r_last, r_streak>>
upVars == <<u_pc, u_store, u_data, u_disk, u_started, u_failed, u_other, u_vid>>
auxVars == <<pending, r_data, r_expired, r_calls, r_trips, r_last, r_streak,
            u_pc, u_store, u_data, u_disk, u_started, u_failed, u_other, u_vid>>
vars == <<env, c_pc, c_ask, allowed_users, user_states, tokens, uploads, jobs, disk, last, calls, trace,
          faults,
          e_pc, e_in, e_body, e_retry, e_result, e_attempts, e_outs, e_sleeps,
          e_data, e_refresh,
          pending, r_data, r_expired, r_calls, r_trips, r_last, r_streak,
          u_pc, u_store, u_data, u_disk, u_started, u_failed, u_other, u_vid>>

(***************************************************************************)
(* Bounds                                                                  *)
(***************************************************************************)
\* upload operations (running or recorded) kept in one behaviour
MaxUploads == 2
\* whitespace characters put around an inbound text
MaxPad == 1
\* partial (resume-incomplete) answers of the transport in one engine call
MaxPartial == 2

Users == {1, 2}

(***************************************************************************)
(* Text: a Python str is a sequence of one-character strings               *)
(***************************************************************************)
Rep(c, n) == [i \in 1..n |-> c]

Whitespace == {" "}

\* str.lstrip()
RECURSIVE LStrip(_)
LStrip(s) ==
    IF s = <<>> THEN s
    ELSE IF Head(s) \in Whitespace THEN LStrip(Tail(s)) ELSE s

\* str.rstrip()
RECURSIVE RStrip(_)
RStrip(s) ==
    IF s = <<>> THEN s
    ELSE IF s[Len(s)] \in Whitespace THEN RStrip(SubSeq(s, 1, Len(s) - 1)) ELSE s

\* str.strip()
Strip(s) == RStrip(LStrip(s))

LowerChar(c) ==
    CASE c = "S" -> "s"
      [] c = "K" -> "k"
      [] c = "I" -> "i"
      [] c = "P" -> "p"
      [] c = "A" -> "a"
      [] c = "M" -> "m"
      [] c = "T" -> "t"
      [] OTHER -> c

\* str.lower()
Lower(s) == [i \in 1..Len(s) |-> LowerChar(s[i])]

TitleLimit == 100

SkipWord == <<"s", "k", "i", "p">>
Signature == <<"<signature>">>
Untitled == <<"<Untitled Video>">>
Absent == <<"<absent>">>

\* inbound texts: the sentinel in mixed case and texts around the title
\* limit, bare and with whitespace around them
Long(n) == <<"A">> \o Rep("a", n - 1)
SkipMixed == <<"S", "k", "I", "p">>
Bodies == {SkipMixed, Long(TitleLimit), Long(TitleLimit + 1)}
Texts == {Rep(" ", p) \o b \o Rep(" ", p) : p \in {0, MaxPad}, b \in Bodies}

\* the texts sent while uploads run concurrently
FewTexts == {SkipMixed, Long(TitleLimit + 1)}

\* the texts of a dialogue in which nothing fails: a title and the sentinel
MyTrip == <<"M", "y", " ", "T", "r", "i", "p">>
TripTexts == {MyTrip, SkipWord}


(***************************************************************************)
(* Media, state dicts, replies                                             *)
(***************************************************************************)
\* VideoHandler.max_file_size, read from MAX_FILE_SIZE.  The default, 2 GiB,
\* is beyond TLC's 32-bit integers: the bot is run with MAX_FILE_SIZE = 1 GiB
MaxFileSize == 1073741824

SupportedFormats ==
    {"video/mp4", "video/avi", "video/quicktime", "video/x-msvideo",
     "video/x-flv", "video/x-matroska", "video/webm", "application/octet-stream"}

NoFile == [file_id |-> "", file_name |-> "", file_size |-> 0, mime_type |-> ""]

\* media events: a file of exactly the maximum size, an oversized one and
\* one of an unsupported format
Files ==
    {[file_id |-> "f1", file_name |-> "a.mp4", file_size |-> MaxFileSize,
      mime_type |-> "video/mp4"],
     [file_id |-> "f2", file_name |-> "b.mp4", file_size |-> MaxFileSize + 1,
      mime_type |-> "video/mp4"],
     [file_id |-> "f3", file_name |-> "c.png", file_size |-> 1,
      mime_type |-> "image/png"]}

\* the same and a document that carries no mime type
MediaFiles ==
    Files \cup {[file_id |-> "f4", file_name |-> "d", file_size |-> 1,
                 mime_type |-> ""]}

\* a user with no entry in user_states
NoState == [state |-> "none", file |-> NoFile, title |-> Absent, description |-> Absent]

\* {'state': s, 'timestamp': now}
FreshState(s) == [state |-> s, file |-> NoFile, title |-> Absent, description |-> Absent]

HasState(u) == user_states[u].state # "none"

NoReply == [uid |-> 0, ev |-> "none", msg |-> "none"]

\* the reply msg sent to user u while event ev is handled
Reply(u, ev, msg) == IF trace THEN [uid |-> u, ev |-> ev, msg |-> msg] ELSE NoReply

\* the calls S made to the store (db), the OAuth client and the upload
\* engine while a step of a handler ran, recorded like the replies
Calls(S) == IF trace THEN S ELSE {}

\* ensure_user_in_db, lines 155-169
EnsureUser == {"add_user", "update_user_activity"}

(***************************************************************************)
(* The allow-list (src/bot.py, _parse_allowed_users and is_user_allowed)   *)
(***************************************************************************)
\* the longest value of ALLOWED_USERS that is tried
MaxEnvLen == 3

\* the characters of the values tried: digits, the separator, a blank, a
\* sign, the digit separator of Python literals and a letter
EnvChars == {"1", "2", ",", " ", "-", "_", "x"}

EnvStrings == UNION {[1..n -> EnvChars] : n \in 0..MaxEnvLen}

DigitChars == <<"0", "1", "2", "3", "4", "5", "6", "7", "8", "9">>

IsDigit(c) == \E n \in 1..Len(DigitChars) : DigitChars[n] = c

DigitValue(c) == (CHOOSE n \in 1..Len(DigitChars) : DigitChars[n] = c) - 1

\* str.split(',')
RECURSIVE Split(_)
Split(s) ==
    IF \E i \in 1..Len(s) : s[i] = ","
    THEN LET i == CHOOSE k \in 1..Len(s) :
                     s[k] = "," /\ \A m \in 1..(k - 1) : s[m] # ","
         IN  <<SubSeq(s, 1, i - 1)>> \o Split(SubSeq(s, i + 1, Len(s)))
    ELSE <<s>>

\* the filter of the comprehension of line 84: if user_id.strip()
NonBlank(e) == Strip(e) # <<>>

\* the digits of a literal, an optional sign taken off
Unsigned(e) == IF e # <<>> /\ Head(e) \in {"+", "-"} THEN Tail(e) ELSE e

\* whether int(e) returns for a stripped string e: an optional sign, then
\* digits with single underscores between them
IsIntLiteral(e) ==
    LET d == Unsigned(e)
    IN  /\ d # <<>>
        /\ \A i \in 1..Len(d) : IsDigit(d[i]) \/ d[i] = "_"
        /\ IsDigit(d[1])
        /\ IsDigit(d[Len(d)])
        /\ \A i \in 1..(Len(d) - 1) : ~(d[i] = "_" /\ d[i + 1] = "_")

RECURSIVE DigitsValue(_)
DigitsValue(d) ==
    IF d = <<>> THEN 0
    ELSE LET c == d[Len(d)]
             front == DigitsValue(SubSeq(d, 1, Len(d) - 1))
         IN  IF c = "_" THEN front ELSE 10 * front + DigitValue(c)

\* int(e) for a stripped string e that is a literal
IntValue(e) ==
    IF Head(e) = "-" THEN 0 - DigitsValue(Unsigned(e)) ELSE DigitsValue(Unsigned(e))

\* a parse that leaves out the entries that are not integers
ParseAllowedUsersSkippingBad(str) ==
    IF str = <<>> THEN <<>>
    ELSE LET entries == SelectSeq(Split(str), NonBlank)
             good(e) == IsIntLiteral(Strip(e))
             kept == SelectSeq(entries, good)
         IN  [i \in 1..Len(kept) |-> IntValue(Strip(kept[i]))]

\* _parse_allowed_users, lines 74-89: the list returned for the value str
ParseAllowedUsers(str) ==
    IF str = <<>> THEN <<>>
    ELSE LET entries == SelectSeq(Split(str), NonBlank)
         IN  IF \E i \in 1..Len(entries) : ~IsIntLiteral(Strip(entries[i]))
             THEN <<>>
             ELSE [i \in 1..Len(entries) |-> IntValue(Strip(entries[i]))]

\* the members of a list
Members(l) == {l[i] : i \in 1..Len(l)}

\* the values of ALLOWED_USERS the bot is run with: unset, user 1 only,
\* user 2 only
Environments == {<<>>, <<"1">>, <<"2">>}

\* the allow-lists they give: nobody listed (everybody allowed), user 1
\* only, user 2 only
AllowLists == {Members(ParseAllowedUsers(e)) : e \in Environments}

\* is_user_allowed was not called
NoAsk == [uid |-> 0, allowed |-> FALSE]

\* a gate that lets everybody in
IsUserAllowedAlways(u) == TRUE

\* YouTubeBot.is_user_allowed
IsUserAllowed(u) == allowed_users = {} \/ u \in allowed_users

(***************************************************************************)
(* Upload frames.  A frame of upload_video_to_youtube holds a reference to *)
(* the state dict it was called with.  While that dict is still the entry  *)
(* of user_states the frame is `live` and reads it there; when the entry   *)
(* is replaced or deleted the frame keeps the old dict (dict), which       *)
(* nothing mutates any more.                                               *)
(***************************************************************************)
NewJob(u) ==
    [uid |-> u, pc |-> "start", live |-> TRUE, dict |-> NoState,
     title |-> Absent, description |-> Absent, video_id |-> "none"]

JobSet == BagToSet(jobs)

BagOf(x) == SetToBag({x})

\* user u's entry of user_states is replaced or deleted: u's live frames keep
\* the dict that was there
Orphan(j, u) ==
    IF j.uid = u /\ j.live
    THEN [j EXCEPT !.live = FALSE, !.dict = user_states[u]]
    ELSE j

\* the frames of bag B after that
OrphanedIn(B, u) ==
    LET img == {Orphan(x, u) : x \in DOMAIN B}
    IN  [y \in img |->
            BagCardinality([x \in {z \in DOMAIN B : Orphan(z, u) = y} |-> B[x]])]

\* a cancel that ends the user's running upload operations
Aborted(u) == [j \in {k \in DOMAIN jobs : k.uid # u} |-> jobs[j]]

Orphaned(u) == OrphanedIn(jobs, u)

\* the dict a frame reads
JobDict(j) == IF j.live THEN user_states[j.uid] ELSE j.dict

\* the event loop runs one task at a time; a synchronous call inside a
\* coroutine keeps the loop until it returns
LoopFree == \A j \in JobSet : j.pc # "chunk"


\* the outcomes of a call to a collaborator: it succeeds, or (when the
\* collaborators can fail) it does not
Maybe == IF faults THEN BOOLEAN ELSE {TRUE}

(***************************************************************************)
(* Persistence (src/database.py).  Every method swallows its errors: a     *)
(* failed read yields None, a failed write changes nothing.  dbok is       *)
(* whether the call reached the store.                                     *)
(***************************************************************************)
\* a lookup that finds a credential for everybody
GetOauthTokenAlways(u, dbok) == dbok

\* Database.get_oauth_token: the credential, or None
GetOauthToken(u, dbok) == dbok /\ tokens[u]

\* a save that loses the stored document when the write fails
SaveOauthTokenLosing(u, dbok) == [tokens EXCEPT ![u] = dbok]

\* Database.save_oauth_token
SaveOauthToken(u, dbok) == IF dbok THEN [tokens EXCEPT ![u] = TRUE] ELSE tokens

\* Database.add_upload_record
AddUploadRecord(rec, dbok) == IF dbok THEN uploads (+) BagOf(rec) ELSE uploads

(***************************************************************************)
(* Commands                                                                *)
(***************************************************************************)
\* a gate that is reached after ensure_user_in_db
RejectedAfterLookup(u, ev) ==
    /\ ~IsUserAllowed(u)
    /\ last' = Reply(u, ev, "not_authorized")
    /\ calls' = Calls(EnsureUser)
    /\ UNCHANGED <<user_states, tokens, uploads, jobs>>

\* the authorization gate the handlers open with
Rejected(u, ev) ==
    /\ ~IsUserAllowed(u)
    /\ last' = Reply(u, ev, "not_authorized")
    /\ calls' = {}
    /\ UNCHANGED <<user_states, tokens, uploads, jobs>>

\* handle_start, handle_history, handle_stats: gate, ensure_user_in_db (the
\* users collection is read by no handler), reply
HandleInfo(u, ev, msg) ==
    /\ LoopFree
    /\ \/ Rejected(u, ev)
       \/ /\ IsUserAllowed(u)
          /\ last' = Reply(u, ev, msg)
          /\ calls' = Calls(EnsureUser \cup
                            CASE ev = "history" -> {"get_user_uploads"}
                              [] ev = "stats" -> {"get_total_users", "get_total_uploads",
                                                  "get_user_uploads"}
                              [] OTHER -> {})
          /\ UNCHANGED <<user_states, tokens, uploads, jobs>>
    /\ UNCHANGED <<cfgVars, allowed_users, trace, faults, disk, engVars, auxVars>>

HandleStart(u) == HandleInfo(u, "start", "welcome")

HandleHistory(u) == HandleInfo(u, "history", "history")

HandleStats(u) == HandleInfo(u, "stats", "stats")

HandleHelp(u) ==
    /\ LoopFree
    /\ \/ Rejected(u, "help")
       \/ /\ IsUserAllowed(u)
          /\ last' = Reply(u, "help", "help")
          /\ calls' = {}
          /\ UNCHANGED <<user_states, tokens, uploads, jobs>>
    /\ UNCHANGED <<cfgVars, allowed_users, trace, faults, disk, engVars, auxVars>>

HandleAuth(u) ==
    /\ LoopFree
    /\ \/ Rejected(u, "auth")
       \/ /\ IsUserAllowed(u)
          /\ \E dbget \in Maybe :
                /\ IF GetOauthToken(u, dbget)
                   THEN /\ last' = Reply(u, "auth", "already_authenticated")
                        /\ calls' = Calls(EnsureUser \cup {"get_oauth_token"})
                        /\ UNCHANGED <<user_states, jobs>>
                   ELSE /\ user_states' =
                              [user_states EXCEPT ![u] = FreshState("waiting_auth_code")]
                        /\ jobs' = Orphaned(u)
                        /\ last' = Reply(u, "auth", "auth_url")
                        /\ calls' = Calls(EnsureUser \cup
                                          {"get_oauth_token", "get_oauth_url"})
          /\ UNCHANGED <<tokens, uploads>>
    /\ UNCHANGED <<cfgVars, allowed_users, trace, faults, disk, engVars, auxVars>>

HandleUploadCommand(u) ==
    /\ LoopFree
    /\ \/ Rejected(u, "upload")
       \/ /\ IsUserAllowed(u)
          /\ \E dbget \in Maybe :
                /\ IF ~GetOauthToken(u, dbget)
                   THEN /\ last' = Reply(u, "upload", "auth_required")
                        /\ UNCHANGED <<user_states, jobs>>
                   ELSE /\ user_states' =
                              [user_states EXCEPT ![u] = FreshState("waiting_video")]
                        /\ jobs' = Orphaned(u)
                        /\ last' = Reply(u, "upload", "upload_prompt")
                /\ calls' = Calls(EnsureUser \cup {"get_oauth_token"})
          /\ UNCHANGED <<tokens, uploads>>
    /\ UNCHANGED <<cfgVars, allowed_users, trace, faults, disk, engVars, auxVars>>

\* a cancel that spares a dialogue whose upload has started
DeletedUnlessUploading(u) ==
    IF \E j \in JobSet : j.uid = u THEN user_states
    ELSE [user_states EXCEPT ![u] = NoState]

\* a cancel that empties the whole table
DeletedForEverybody(u) == [v \in Users |-> NoState]

\* del self.user_states[user_id] (line 343)
Deleted(u) == [user_states EXCEPT ![u] = NoState]

HandleCancel(u) ==
    /\ LoopFree
    /\ IF HasState(u)
       THEN /\ user_states' = Deleted(u)
            /\ jobs' = Orphaned(u)
            /\ last' = Reply(u, "cancel", "cancelled")
       ELSE /\ last' = Reply(u, "cancel", "nothing_to_cancel")
            /\ UNCHANGED <<user_states, jobs>>
    /\ calls' = {}
    /\ UNCHANGED <<cfgVars, allowed_users, trace, faults, disk, tokens, uploads, engVars, auxVars>>

(***************************************************************************)
(* Media                                                                   *)
(***************************************************************************)
\* a size test that is off by one
ProcessVideoBelowMax(f) ==
    IF f.file_size >= MaxFileSize
    THEN [ok |-> FALSE, msg |-> "file_too_large", st |-> NoState]
    ELSE [ok |-> TRUE, msg |-> "video_details",
          st |-> [state |-> "waiting_title", file |-> f,
                  title |-> Absent, description |-> Absent]]

\* a format test that wants a mime type
ProcessVideoNeedsMime(f) ==
    IF f.file_size > MaxFileSize
    THEN [ok |-> FALSE, msg |-> "file_too_large", st |-> NoState]
    ELSE IF f.mime_type \notin SupportedFormats
    THEN [ok |-> FALSE, msg |-> "unsupported_format", st |-> NoState]
    ELSE [ok |-> TRUE, msg |-> "video_details",
          st |-> [state |-> "waiting_title", file |-> f,
                  title |-> Absent, description |-> Absent]]

\* VideoHandler.process_video: the new entry of user_states, or the rejection
ProcessVideo(f) ==
    IF f.file_size > MaxFileSize
    THEN [ok |-> FALSE, msg |-> "file_too_large", st |-> NoState]
    ELSE IF f.mime_type # "" /\ f.mime_type \notin SupportedFormats
    THEN [ok |-> FALSE, msg |-> "unsupported_format", st |-> NoState]
    ELSE [ok |-> TRUE, msg |-> "video_details",
          st |-> [state |-> "waiting_title", file |-> f,
                  title |-> Absent, description |-> Absent]]

HandleVideo(u, f) ==
    /\ LoopFree
    /\ \/ Rejected(u, "video")
       \/ /\ IsUserAllowed(u)
          /\ \E dbget \in Maybe :
                /\ IF ~GetOauthToken(u, dbget)
                   THEN /\ last' = Reply(u, "video", "auth_required")
                        /\ UNCHANGED <<user_states, jobs>>
                   ELSE LET r == ProcessVideo(f)
                        IN  /\ last' = Reply(u, "video", r.msg)
                            /\ IF r.ok
                               THEN /\ user_states' = [user_states EXCEPT ![u] = r.st]
                                    /\ jobs' = Orphaned(u)
                               ELSE UNCHANGED <<user_states, jobs>>
                /\ calls' = Calls(EnsureUser \cup {"get_oauth_token"})
          /\ UNCHANGED <<tokens, uploads>>
    /\ UNCHANGED <<cfgVars, allowed_users, trace, faults, disk, engVars, auxVars>>


(***************************************************************************)
(* Text                                                                    *)
(***************************************************************************)
\* handle_text, no entry for the user
HandleTextNoState(u, t) ==
    /\ ~HasState(u)
    /\ last' = Reply(u, "text", "no_state_hint")
    /\ calls' = {}
    /\ UNCHANGED <<user_states, tokens, uploads, jobs>>

\* a text outside the text steps that closes the dialogue
HandleTextOtherClosing(u, t) ==
    /\ HasState(u)
    /\ user_states[u].state \notin
          {"waiting_auth_code", "waiting_title", "waiting_description"}
    /\ last' = Reply(u, "text", "dont_understand")
    /\ calls' = {}
    /\ user_states' = [user_states EXCEPT ![u] = NoState]
    /\ UNCHANGED <<tokens, uploads, jobs>>

\* handle_text, a state with no text step (waiting_video)
HandleTextOther(u, t) ==
    /\ HasState(u)
    /\ user_states[u].state \notin
          {"waiting_auth_code", "waiting_title", "waiting_description"}
    /\ last' = Reply(u, "text", "dont_understand")
    /\ calls' = {}
    /\ UNCHANGED <<user_states, tokens, uploads, jobs>>

\* _handle_auth_code; exchanged: exchange_code_for_token returned token data
HandleAuthCode(u, t) ==
    /\ user_states[u].state = "waiting_auth_code"
    /\ \E exchanged, dbok \in Maybe :
          IF exchanged
          THEN /\ tokens' = SaveOauthToken(u, dbok)
               /\ user_states' = [user_states EXCEPT ![u] = NoState]
               /\ jobs' = Orphaned(u)
               /\ last' = Reply(u, "text", "auth_success")
               /\ calls' = Calls({"exchange_code_for_token", "save_oauth_token",
                                  "set_user_authenticated"})
          ELSE /\ last' = Reply(u, "text", "invalid_code")
               /\ calls' = Calls({"exchange_code_for_token"})
               /\ UNCHANGED <<user_states, tokens, jobs>>
    /\ UNCHANGED uploads

\* no length test at all
TitleTooLongNever(title) == FALSE

\* a length test that is off by one
TitleTooLongFrom100(title) == Len(title) >= TitleLimit

\* the guard of _handle_video_title
TitleTooLong(title) == Len(title) > TitleLimit

\* a title step that stores the title and says nothing
HandleVideoTitleSilent(u, t) ==
    /\ user_states[u].state = "waiting_title"
    /\ LET title == Strip(t)
       IN  IF TitleTooLong(title)
           THEN UNCHANGED <<user_states, last>>
           ELSE /\ user_states' =
                      [user_states EXCEPT ![u].title = title,
                                          ![u].state = "waiting_description"]
                /\ UNCHANGED last
    /\ calls' = {}
    /\ UNCHANGED <<tokens, uploads, jobs>>

\* _handle_video_title
HandleVideoTitle(u, t) ==
    /\ user_states[u].state = "waiting_title"
    /\ LET title == Strip(t)
       IN  IF TitleTooLong(title)
           THEN /\ last' = Reply(u, "text", "title_too_long")
                /\ UNCHANGED user_states
           ELSE /\ user_states' =
                      [user_states EXCEPT ![u].title = title,
                                          ![u].state = "waiting_description"]
                /\ last' = Reply(u, "text", "title_set")
    /\ calls' = {}
    /\ UNCHANGED <<tokens, uploads, jobs>>

\* a sentinel test that is case-sensitive
DescriptionCaseSensitive(t) ==
    LET description == Strip(t)
    IN  IF description = SkipWord THEN <<>> ELSE description

\* _handle_video_description, lines 484-490: the description that is stored
Description(t) ==
    LET description == Strip(t)
    IN  IF Lower(description) = SkipWord THEN <<>> ELSE description

\* _handle_video_description up to its call of upload_video_to_youtube, which
\* runs to its first suspension (db.get_oauth_token)
HandleVideoDescription(u, t) ==
    /\ user_states[u].state = "waiting_description"
    /\ BagCardinality(jobs) + BagCardinality(uploads) < MaxUploads
    /\ user_states' = [user_states EXCEPT ![u].description = Description(t)]
    /\ jobs' = jobs (+) BagOf(NewJob(u))
    /\ calls' = {}
    /\ UNCHANGED <<tokens, uploads, last>>

HandleText(u, t) ==
    /\ LoopFree
    /\ \/ HandleTextNoState(u, t)
       \/ HandleAuthCode(u, t)
       \/ HandleVideoTitle(u, t)
       \/ HandleVideoDescription(u, t)
       \/ HandleTextOther(u, t)
    /\ UNCHANGED <<cfgVars, allowed_users, trace, faults, disk, engVars, auxVars>>


(***************************************************************************)
(* Credentials (src/youtube_client.py).  token_data is the dict that       *)
(* exchange_code_for_token builds: the access token (numbered as issued),  *)
(* the refresh token ("" when there is none) and four fields nothing       *)
(* rewrites.                                                               *)
(***************************************************************************)
TokenData(token, refresh_token) ==
    [token |-> token, refresh_token |-> refresh_token,
     token_uri |-> "token_uri", client_id |-> "client_id",
     client_secret |-> "client_secret", scopes |-> "scopes"]

\* a refresh whenever there is a refresh token, expired or not
NeedsRefreshAnyTime(token_data, expired) == token_data.refresh_token # ""

\* the guard of line 112: credentials.expired and credentials.refresh_token
NeedsRefresh(token_data, expired) == expired /\ token_data.refresh_token # ""

\* what the token endpoint answers to a refresh: a failure, or a new access
\* token with a new refresh token or ("") none
RefreshAnswers(new_token) ==
    {[ok |-> FALSE, token |-> 0, refresh_token |-> ""]}
      \cup {[ok |-> TRUE, token |-> new_token, refresh_token |-> r] : r \in {"", "r1"}}

\* a refresh that stores whatever refresh token the answer carries
RefreshTokenIfNeededOverwriting(token_data, expired, answer) ==
    IF NeedsRefresh(token_data, expired)
    THEN IF answer.ok
         THEN [raised |-> FALSE, trips |-> 1,
               data |-> [token_data EXCEPT
                           !.token = answer.token,
                           !.refresh_token = answer.refresh_token]]
         ELSE [raised |-> TRUE, trips |-> 1, data |-> token_data]
    ELSE [raised |-> FALSE, trips |-> 0, data |-> token_data]

\* refresh_token_if_needed, lines 107-125: the dict afterwards, the round
\* trips made and whether the call raised
RefreshTokenIfNeeded(token_data, expired, answer) ==
    IF NeedsRefresh(token_data, expired)
    THEN IF answer.ok
         THEN [raised |-> FALSE, trips |-> 1,
               data |-> [token_data EXCEPT
                           !.token = answer.token,
                           !.refresh_token = IF answer.refresh_token = ""
                                             THEN token_data.refresh_token
                                             ELSE answer.refresh_token]]
         ELSE [raised |-> TRUE, trips |-> 1, data |-> token_data]
    ELSE [raised |-> FALSE, trips |-> 0, data |-> token_data]

(***************************************************************************)
(* The chunk loop of YouTubeClient.upload_video                            *)
(***************************************************************************)
RetriableStatuses == {500, 502, 503, 504}

MaxRetries == 5

\* what insert_request.next_chunk() can do: return the final response
\* (status 200), return progress with no response yet (308), raise HttpError
\* with a status, raise anything else (status 0)
Response == [kind |-> "response", status |-> 200]
Partial == [kind |-> "partial", status |-> 308]
HttpError(status) == [kind |-> "http", status |-> status]
OtherError == [kind |-> "exception", status |-> 0]

\* a loop that starts counting again after a chunk that went through
OnChunkResetOnProgress(out, retry) ==
    CASE out.kind = "response" ->
            [retry |-> retry, next |-> "return_id", delay |-> 0]
      [] out.kind = "partial" ->
            [retry |-> 0, next |-> "loop", delay |-> 0]
      [] out.kind = "http" /\ out.status \in RetriableStatuses ->
            IF retry + 1 > MaxRetries
            THEN [retry |-> retry + 1, next |-> "return_none", delay |-> 0]
            ELSE [retry |-> retry + 1, next |-> "sleep", delay |-> 2 ^ (retry + 1)]
      [] OTHER ->
            [retry |-> retry, next |-> "return_none", delay |-> 0]

\* a loop that retries after every HTTP error
OnChunkRetryAnyStatus(out, retry) ==
    CASE out.kind = "response" ->
            [retry |-> retry, next |-> "return_id", delay |-> 0]
      [] out.kind = "partial" ->
            [retry |-> retry, next |-> "loop", delay |-> 0]
      [] out.kind = "http" ->
            IF retry + 1 > MaxRetries
            THEN [retry |-> retry + 1, next |-> "return_none", delay |-> 0]
            ELSE [retry |-> retry + 1, next |-> "sleep", delay |-> 2 ^ (retry + 1)]
      [] OTHER ->
            [retry |-> retry, next |-> "return_none", delay |-> 0]

\* a retry test that gives up one attempt early
OnChunkGiveUpEarly(out, retry) ==
    CASE out.kind = "response" ->
            [retry |-> retry, next |-> "return_id", delay |-> 0]
      [] out.kind = "partial" ->
            [retry |-> retry, next |-> "loop", delay |-> 0]
      [] out.kind = "http" /\ out.status \in RetriableStatuses ->
            IF retry + 1 >= MaxRetries
            THEN [retry |-> retry + 1, next |-> "return_none", delay |-> 0]
            ELSE [retry |-> retry + 1, next |-> "sleep", delay |-> 2 ^ (retry + 1)]
      [] OTHER ->
            [retry |-> retry, next |-> "return_none", delay |-> 0]

\* one pass of the while loop, lines 172-190: the new value of retry and how
\* the pass ends (next: "return_id", "loop", "sleep", "return_none")
OnChunk(out, retry) ==
    CASE out.kind = "response" ->
            [retry |-> retry, next |-> "return_id", delay |-> 0]
      [] out.kind = "partial" ->
            [retry |-> retry, next |-> "loop", delay |-> 0]
      [] out.kind = "http" /\ out.status \in RetriableStatuses ->
            IF retry + 1 > MaxRetries
            THEN [retry |-> retry + 1, next |-> "return_none", delay |-> 0]
            ELSE [retry |-> retry + 1, next |-> "sleep", delay |-> 2 ^ (retry + 1)]
      [] OTHER ->
            [retry |-> retry, next |-> "return_none", delay |-> 0]

\* the metadata body of lines 140-151
Body(title, description, tags, privacy_status) ==
    [title |-> title, description |-> description, tags |-> tags,
     categoryId |-> "22", privacyStatus |-> privacy_status,
     selfDeclaredMadeForKids |-> FALSE]

(***************************************************************************)
(* VideoHandler.upload_video_to_youtube as a task                          *)
(*   start      called, suspended in db.get_oauth_token                    *)
(*   scheduled  transfer task created, announcer suspended                 *)
(*   chunk      transfer task inside next_chunk() (synchronous)            *)
(*   backoff    transfer task in asyncio.sleep(2 ** retry)                 *)
(*   done       transfer task finished, video_id is its result             *)
(*   return     last message sent; cleanup, return and the caller's        *)
(*              clearing of the state follow without suspension            *)
(***************************************************************************)
\* a signature always set off by a blank line
FinalDescriptionSeparated(description) ==
    description \o <<"\n", "\n">> \o Signature

\* lines 121-124
FinalDescription(description) ==
    (IF description # <<>> THEN description \o <<"\n", "\n">> ELSE <<>>) \o Signature

\* dict.get(key, default)
DictGet(v, default) == IF v = Absent THEN default ELSE v

Replace(j, k) == (jobs (-) BagOf(j)) (+) BagOf(k)

\* _download_video, line 179: the path of the temporary file of a dict
TempPath(d) == <<"temp", d.file.file_id, d.file.file_name>>

\* lines 92-135 up to the creation of the transfer task.  how: what the
\* chat transport and the download did.  The download writes the temporary
\* file; an edit that raises inside the try block of lines 110-162 runs the
\* cleanup of the finally clause, which removes it.  send_failed: a send to the chat
\* raises and so does the error reply of lines 164-167, so the exception
\* leaves upload_video_to_youtube; bot.py lines 503-505 answer it and the
\* clearing of lines 498-501 is skipped
JobPrepare(j) ==
    /\ LoopFree
    /\ j.pc = "start"
    /\ \E dbget \in Maybe,
          how \in IF faults
                  THEN {"ok", "download_failed", "edit_failed", "edit30_failed", "send_failed"}
                  ELSE {"ok"} :
          LET d == JobDict(j)
              fail(msg, files) ==
                  /\ jobs' = Replace(j, [j EXCEPT !.pc = "return"])
                  /\ last' = Reply(j.uid, "job", msg)
                  /\ calls' = Calls({"get_oauth_token"})
                  /\ disk' = files
          IN  IF how = "send_failed"
              THEN /\ jobs' = jobs (-) BagOf(j)
                   /\ last' = Reply(j.uid, "job", "error_occurred")
                   /\ calls' = Calls({"get_oauth_token"})
                   /\ disk' = disk
              ELSE IF ~GetOauthToken(j.uid, dbget) THEN fail("auth_required_upload", disk)
              ELSE IF how = "download_failed" THEN fail("download_failed", disk)
              ELSE IF how = "edit_failed" THEN fail("upload_error", disk \ {TempPath(d)})
              ELSE IF how = "edit30_failed" THEN fail("upload_failed", disk \ {TempPath(d)})
              ELSE /\ disk' = disk \cup {TempPath(d)}
                   /\ jobs' = Replace(j,
                        [j EXCEPT !.pc = "scheduled", !.live = FALSE,
                                  !.dict = [NoState EXCEPT !.file = d.file],
                                  !.title = DictGet(d.title, Untitled),
                                  !.description = FinalDescription(DictGet(d.description, <<>>))])
                   /\ last' = Reply(j.uid, "job", "progress")
                   /\ calls' = Calls({"get_oauth_token", "upload_video"})
    /\ UNCHANGED <<cfgVars, allowed_users, trace, faults, user_states, tokens, uploads, engVars, auxVars>>

\* the transfer task gets the loop: upload_video from its first line, or from
\* the end of a backoff sleep, into next_chunk().  refreshed: whether
\* refresh_token_if_needed returned (it raises when the refresh fails).
\* MediaFileUpload (line 154) opens the temporary file and raises when it is
\* not there; line 200 turns either exception into None
XferRun(j) ==
    /\ LoopFree
    /\ j.pc \in {"scheduled", "backoff"}
    /\ \E refreshed \in Maybe :
          jobs' = Replace(j,
             IF j.pc = "scheduled" /\ (~refreshed \/ TempPath(j.dict) \notin disk)
             THEN [j EXCEPT !.pc = "done"]
             ELSE [j EXCEPT !.pc = "chunk"])
    /\ UNCHANGED <<cfgVars, allowed_users, trace, faults, disk, user_states, tokens, uploads, last, calls,
                   engVars, auxVars>>

\* next_chunk() returns or raises inside the transfer task.  retry is local
\* to the engine call (SpecEngine follows it): here the pass ends in any way
\* OnChunk allows for some value of it
ChunkReturn(j) ==
    /\ j.pc = "chunk"
    /\ \E out \in IF faults THEN {Response, HttpError(503), HttpError(403)} ELSE {Response},
          retry \in 0..MaxRetries :
          LET r == OnChunk(out, retry)
          IN  jobs' = Replace(j,
                 [j EXCEPT !.pc = IF r.next = "sleep" THEN "backoff" ELSE "done",
                           !.video_id = IF r.next = "return_id" THEN "vid" ELSE "none"])
    /\ UNCHANGED <<cfgVars, allowed_users, trace, faults, disk, user_states, tokens, uploads, last, calls,
                   engVars, auxVars>>

UploadRecord(j) ==
    [user_id |-> j.uid, video_id |-> j.video_id, title |-> j.title,
     description |-> j.description, file_name |-> j.dict.file.file_name]

\* _upload_with_progress lines 236-251 and upload_video_to_youtube lines
\* 136-158: the result of the transfer task is awaited, the record is saved
\* and the outcome is sent.  edit100: the update to 100 percent reached the
\* chat; if it raised, line 249 turns the video id into None.  sent: the
\* outcome message reached the chat; if it did not, the error reply of lines
\* 164-167 is sent (replied) or raises too.  The finally clause of lines
\* 160-162 removes the temporary file on every way out
JobRecord(j) ==
    /\ LoopFree
    /\ j.pc = "done"
    /\ \E edit100, dbok, sent, replied \in Maybe :
          LET video_id == IF edit100 THEN j.video_id ELSE "none"
          IN  /\ uploads' = IF video_id # "none"
                            THEN AddUploadRecord(UploadRecord(j), dbok)
                            ELSE uploads
              /\ IF sent
                 THEN /\ last' = Reply(j.uid, "job",
                                     IF video_id # "none" THEN "upload_success"
                                                          ELSE "upload_failed")
                      /\ jobs' = Replace(j, [j EXCEPT !.pc = "return"])
                 ELSE IF replied
                 THEN /\ last' = Reply(j.uid, "job", "upload_error")
                      /\ jobs' = Replace(j, [j EXCEPT !.pc = "return"])
                 ELSE /\ last' = Reply(j.uid, "job", "error_occurred")
                      /\ jobs' = jobs (-) BagOf(j)
              /\ calls' = Calls(IF video_id # "none" THEN {"add_upload_record"} ELSE {})
              /\ disk' = disk \ {TempPath(j.dict)}
    /\ UNCHANGED <<cfgVars, allowed_users, trace, faults, user_states, tokens, engVars, auxVars>>

\* a return that leaves the state where it is
KeptAfterUpload(u) == user_states

\* upload_video_to_youtube returns to _handle_video_description, which
\* clears the user's state (bot.py lines 498-501)
ClearedAfterUpload(u) == [user_states EXCEPT ![u] = NoState]

JobReturn(j) ==
    /\ LoopFree
    /\ j.pc = "return"
    /\ user_states' = ClearedAfterUpload(j.uid)
    /\ jobs' = OrphanedIn(jobs (-) BagOf(j), j.uid)
    /\ UNCHANGED <<cfgVars, allowed_users, trace, faults, disk, tokens, uploads, last, calls, engVars,
                   auxVars>>

(***************************************************************************)
(* The bot                                                                 *)
(***************************************************************************)
\* no call of upload_video_to_youtube is followed
UploadIdle ==
    /\ u_pc = "idle"
    /\ u_store = <<>>
    /\ u_data = <<>>
    /\ u_disk = "none"
    /\ u_started = <<>>
    /\ u_failed = {}
    /\ u_other = FALSE
    /\ u_vid = "none"

NoCall == [title |-> <<>>, description |-> <<>>, privacy_status |-> ""]

EngineIdle ==
    /\ e_pc = "idle"
    /\ e_in = NoCall
    /\ e_body = Body(<<>>, <<>>, <<>>, "")
    /\ e_retry = 0
    /\ e_result = "none"
    /\ e_attempts = 0
    /\ e_outs = {}
    /\ e_sleeps = <<>>
    /\ pending = {}
    /\ r_data = TokenData(0, "")
    /\ r_expired = FALSE
    /\ r_calls = 0
    /\ r_trips = 0
    /\ r_last = [before |-> TokenData(0, ""), expired |-> FALSE, trips |-> 0, raised |-> FALSE,
                issued |-> ""]
    /\ r_streak = 0
    /\ e_data = TokenData(0, "")
    /\ e_refresh = "none"
    /\ UploadIdle

BotInit ==
    /\ env \in Environments
    /\ allowed_users = Members(ParseAllowedUsers(env))
    /\ c_pc = "parsed"
    /\ c_ask = NoAsk
    /\ user_states = [u \in Users |-> NoState]
    /\ tokens = [u \in Users |-> FALSE]
    /\ uploads = EmptyBag
    /\ jobs = EmptyBag
    /\ disk = {}
    /\ last = NoReply
    /\ calls = {}
    /\ EngineIdle

Init == BotInit /\ trace = TRUE /\ faults = TRUE

\* media events come from the first user
Uploader == CHOOSE u \in Users : \A v \in Users : u <= v

\* no upload is running
Quiet == jobs = EmptyBag

Next ==
    \/ \E u \in Users : Quiet /\ HandleStart(u)
    \/ \E u \in Users : Quiet /\ HandleAuth(u)
    \/ \E u \in Users : Quiet /\ HandleUploadCommand(u)
    \/ \E u \in Users : Quiet /\ HandleHistory(u)
    \/ \E u \in Users : Quiet /\ HandleStats(u)
    \/ \E u \in Users : Quiet /\ HandleHelp(u)
    \/ \E u \in Users : HandleCancel(u)
    \/ \E f \in Files : Quiet /\ HandleVideo(Uploader, f)
    \/ \E u \in Users, t \in Texts : Quiet /\ HandleText(u, t)
    \/ \E j \in JobSet : JobPrepare(j)
    \/ \E j \in JobSet : XferRun(j)
    \/ \E j \in JobSet : ChunkReturn(j)
    \/ \E j \in JobSet : JobRecord(j)
    \/ \E j \in JobSet : JobReturn(j)

Spec == Init /\ [][Next]_vars

InitRace == BotInit /\ trace = FALSE /\ faults = TRUE

NextRace ==
    \/ \E u \in Users : HandleAuth(u)
    \/ \E u \in Users : HandleUploadCommand(u)
    \/ \E u \in Users : HandleCancel(u)
    \/ \E f \in Files : HandleVideo(Uploader, f)
    \/ \E u \in Users, t \in FewTexts : HandleText(u, t)
    \/ \E j \in JobSet : JobPrepare(j)
    \/ \E j \in JobSet : XferRun(j)
    \/ \E j \in JobSet : ChunkReturn(j)
    \/ \E j \in JobSet : JobRecord(j)
    \/ \E j \in JobSet : JobReturn(j)

SpecRace == InitRace /\ [][NextRace]_vars

\* the bot with collaborators that do not fail, the replies recorded.  As in
\* Spec a user sends the next event when the upload has returned, except
\* /cancel, sent at any time
InitNoFault == BotInit /\ trace = TRUE /\ faults = FALSE

NextNoFault ==
    \/ \E u \in Users : Quiet /\ HandleAuth(u)
    \/ \E u \in Users : Quiet /\ HandleUploadCommand(u)
    \/ \E u \in Users : HandleCancel(u)
    \/ \E f \in MediaFiles : Quiet /\ HandleVideo(Uploader, f)
    \/ \E u \in Users, t \in TripTexts : Quiet /\ HandleText(u, t)
    \/ \E j \in JobSet : JobPrepare(j)
    \/ \E j \in JobSet : XferRun(j)
    \/ \E j \in JobSet : ChunkReturn(j)
    \/ \E j \in JobSet : JobRecord(j)
    \/ \E j \in JobSet : JobReturn(j)

SpecNoFault == InitNoFault /\ [][NextNoFault]_vars

\* the bot of Spec, collaborators failing and replies recorded, with the
\* short texts of TripTexts
NextShort ==
    \/ \E u \in Users : Quiet /\ HandleStart(u)
    \/ \E u \in Users : Quiet /\ HandleAuth(u)
    \/ \E u \in Users : Quiet /\ HandleUploadCommand(u)
    \/ \E u \in Users : Quiet /\ HandleHistory(u)
    \/ \E u \in Users : Quiet /\ HandleStats(u)
    \/ \E u \in Users : Quiet /\ HandleHelp(u)
    \/ \E u \in Users : HandleCancel(u)
    \/ \E f \in Files : Quiet /\ HandleVideo(Uploader, f)
    \/ \E u \in Users, t \in TripTexts : Quiet /\ HandleText(u, t)
    \/ \E j \in JobSet : JobPrepare(j)
    \/ \E j \in JobSet : XferRun(j)
    \/ \E j \in JobSet : ChunkReturn(j)
    \/ \E j \in JobSet : JobRecord(j)
    \/ \E j \in JobSet : JobReturn(j)

SpecShort == Init /\ [][NextShort]_vars

(***************************************************************************)
(* The construction of the bot: ALLOWED_USERS is read and parsed (line 35) *)
(* and is_user_allowed is then asked about user ids                        *)
(***************************************************************************)
\* the user ids asked about: the users, an id of two digits and an id that
\* no value of ALLOWED_USERS tried can list
AskedIds == Users \cup {12, 7}

InitConfig ==
    /\ env \in EnvStrings
    /\ c_pc = "unread"
    /\ c_ask = NoAsk
    /\ allowed_users = {}
    /\ user_states = [u \in Users |-> NoState]
    /\ tokens = [u \in Users |-> FALSE]
    /\ uploads = EmptyBag
    /\ jobs = EmptyBag
    /\ disk = {}
    /\ last = NoReply
    /\ calls = {}
    /\ trace = FALSE
    /\ faults = FALSE
    /\ EngineIdle

\* self.allowed_users = self._parse_allowed_users()
ConfigLoad ==
    /\ c_pc = "unread"
    /\ allowed_users' = Members(ParseAllowedUsers(env))
    /\ c_pc' = "parsed"
    /\ UNCHANGED <<env, c_ask, user_states, tokens, uploads, jobs, disk, last, calls,
                   trace, faults, engVars, auxVars>>

\* is_user_allowed(u)
ConfigAsk(u) ==
    /\ c_pc = "parsed"
    /\ c_ask' = [uid |-> u, allowed |-> IsUserAllowed(u)]
    /\ UNCHANGED <<env, c_pc, allowed_users, user_states, tokens, uploads, jobs, disk,
                   last, calls, trace, faults, engVars, auxVars>>

NextConfig ==
    \/ ConfigLoad
    \/ \E u \in AskedIds : ConfigAsk(u)

SpecConfig == InitConfig /\ [][NextConfig]_vars


(***************************************************************************)
(* The authorization handlers as tasks.  A handler awaits the store and is *)
(* resumed later: tasks of other events run in between.  pending holds the *)
(* suspended handlers: [uid, op, seen], seen being what the store answered *)
(***************************************************************************)
\* handle_auth, lines 196-204: the gate, then db.get_oauth_token is answered
AuthRead(u) ==
    /\ LoopFree
    /\ \/ Rejected(u, "auth") /\ UNCHANGED pending
       \/ /\ IsUserAllowed(u)
          /\ \E dbget \in Maybe :
                pending' = pending \cup
                    {[uid |-> u, op |-> "auth", seen |-> GetOauthToken(u, dbget)]}
          /\ calls' = Calls(EnsureUser \cup {"get_oauth_token"})
          /\ UNCHANGED <<user_states, tokens, uploads, jobs, last>>
    /\ UNCHANGED <<cfgVars, allowed_users, trace, faults, disk, engVars, refVars, upVars>>

\* handle_auth, lines 205-226: resumed with the answer
AuthResume(p) ==
    /\ LoopFree
    /\ p.op = "auth"
    /\ pending' = pending \ {p}
    /\ IF p.seen
       THEN /\ last' = Reply(p.uid, "auth", "already_authenticated")
            /\ calls' = {}
            /\ UNCHANGED <<user_states, jobs>>
       ELSE /\ user_states' =
                  [user_states EXCEPT ![p.uid] = FreshState("waiting_auth_code")]
            /\ jobs' = Orphaned(p.uid)
            /\ last' = Reply(p.uid, "auth", "auth_url")
            /\ calls' = Calls({"get_oauth_url"})
    /\ UNCHANGED <<cfgVars, allowed_users, trace, faults, disk, tokens, uploads, engVars, refVars, upVars>>

\* handle_text and _handle_auth_code, lines 423-433: the code is exchanged,
\* db.save_oauth_token is done and db.set_user_authenticated is awaited
CodeSave(u, t) ==
    /\ LoopFree
    /\ user_states[u].state = "waiting_auth_code"
    /\ \E exchanged, dbok \in Maybe :
          IF exchanged
          THEN /\ tokens' = SaveOauthToken(u, dbok)
               /\ pending' = pending \cup {[uid |-> u, op |-> "code", seen |-> TRUE]}
               /\ calls' = Calls({"exchange_code_for_token", "save_oauth_token",
                                  "set_user_authenticated"})
               /\ UNCHANGED last
          ELSE /\ last' = Reply(u, "text", "invalid_code")
               /\ calls' = Calls({"exchange_code_for_token"})
               /\ UNCHANGED <<tokens, pending>>
    /\ UNCHANGED <<cfgVars, allowed_users, trace, faults, disk, user_states, uploads, jobs, engVars, refVars, upVars>>

\* _handle_auth_code, lines 435-442: the state is cleared, success is sent
CodeResume(p) ==
    /\ LoopFree
    /\ p.op = "code"
    /\ pending' = pending \ {p}
    /\ user_states' = [user_states EXCEPT ![p.uid] = NoState]
    /\ jobs' = Orphaned(p.uid)
    /\ last' = Reply(p.uid, "text", "auth_success")
    /\ calls' = {}
    /\ UNCHANGED <<cfgVars, allowed_users, trace, faults, disk, tokens, uploads, engVars, refVars, upVars>>

InitAuthRace == BotInit /\ trace = TRUE /\ faults = FALSE

NextAuthRace ==
    \/ \E u \in Users : AuthRead(u)
    \/ \E p \in pending : AuthResume(p)
    \/ \E u \in Users, t \in TripTexts : CodeSave(u, t)
    \/ \E p \in pending : CodeResume(p)
    \/ \E u \in Users : HandleUploadCommand(u)
    \/ \E u \in Users : HandleCancel(u)

SpecAuthRace == InitAuthRace /\ [][NextAuthRace]_vars

(***************************************************************************)
(* Calls of YouTubeClient.refresh_token_if_needed on one token_data dict,  *)
(* the access token expiring as time passes                                *)
(***************************************************************************)
\* calls of refresh_token_if_needed in one behaviour
MaxCalls == 4

InitRefresh ==
    /\ env = <<>>
    /\ allowed_users = Members(ParseAllowedUsers(env))
    /\ c_pc = "parsed"
    /\ c_ask = NoAsk
    /\ user_states = [u \in Users |-> NoState]
    /\ tokens = [u \in Users |-> TRUE]
    /\ uploads = EmptyBag
    /\ jobs = EmptyBag
    /\ disk = {}
    /\ last = NoReply
    /\ calls = {}
    /\ trace = FALSE
    /\ faults = TRUE
    /\ e_pc = "idle"
    /\ e_in = NoCall
    /\ e_body = Body(<<>>, <<>>, <<>>, "")
    /\ e_retry = 0
    /\ e_result = "none"
    /\ e_attempts = 0
    /\ e_outs = {}
    /\ e_sleeps = <<>>
    /\ pending = {}
    /\ r_data \in {TokenData(0, r) : r \in {"", "r0"}}
    /\ r_expired \in BOOLEAN
    /\ r_calls = 0
    /\ r_trips = 0
    /\ r_last = [before |-> r_data, expired |-> FALSE, trips |-> 0, raised |-> FALSE,
                issued |-> ""]
    /\ r_streak = 0
    /\ e_data = TokenData(0, "")
    /\ e_refresh = "none"
    /\ UploadIdle

\* one call of refresh_token_if_needed(r_data); the dict is updated in place
RefreshCall ==
    /\ r_calls < MaxCalls
    /\ \E answer \in RefreshAnswers(r_trips + 1) :
          LET r == RefreshTokenIfNeeded(r_data, r_expired, answer)
          IN  /\ r_data' = r.data
              /\ r_expired' = (r_expired /\ ~(r.trips > 0 /\ ~r.raised))
              /\ r_calls' = r_calls + 1
              /\ r_trips' = r_trips + r.trips
              /\ r_last' = [before |-> r_data, expired |-> r_expired,
                            trips |-> r.trips, raised |-> r.raised,
                            issued |-> IF r.trips > 0 /\ ~r.raised
                                       THEN answer.refresh_token ELSE ""]
              /\ r_streak' = IF NeedsRefresh(r_data, r_expired) THEN 0 ELSE r_streak + 1
    /\ UNCHANGED <<botVars, engVars, pending, upVars>>

\* time passes: the access token expires
Expire ==
    /\ ~r_expired
    /\ r_expired' = TRUE
    /\ UNCHANGED <<botVars, engVars, pending, upVars, r_data, r_calls, r_trips, r_last, r_streak>>

NextRefresh == RefreshCall \/ Expire

SpecRefresh == InitRefresh /\ [][NextRefresh]_vars

(***************************************************************************)
(* One call of YouTubeClient.upload_video                                  *)
(*   call        entered, refresh_token_if_needed not yet run              *)
(*   next_chunk  at the head of the while loop                             *)
(*   sleep       in asyncio.sleep(2 ** retry)                              *)
(*   done        returned e_result                                         *)
(***************************************************************************)
\* the privacy_status values a caller can pass
PrivacyValues == {"private", "public", "unlisted"}

\* the statuses an HttpError of the transport carries
HttpStatuses == {403, 500, 501, 502, 503, 504}

Outcomes == {Response, Partial, OtherError} \cup {HttpError(s) : s \in HttpStatuses}

InitEngine ==
    /\ env = <<>>
    /\ allowed_users = Members(ParseAllowedUsers(env))
    /\ c_pc = "parsed"
    /\ c_ask = NoAsk
    /\ user_states = [u \in Users |-> NoState]
    /\ tokens = [u \in Users |-> TRUE]
    /\ uploads = EmptyBag
    /\ jobs = EmptyBag
    /\ disk = {}
    /\ last = NoReply
    /\ calls = {}
    /\ trace = FALSE
    /\ faults = TRUE
    /\ e_pc = "call"
    /\ e_in \in [title : {SkipMixed}, description : {Signature},
                 privacy_status : PrivacyValues]
    /\ e_body = Body(<<>>, <<>>, <<>>, "")
    /\ e_retry = 0
    /\ e_result = "none"
    /\ e_attempts = 0
    /\ e_outs = {}
    /\ e_sleeps = <<>>
    /\ pending = {}
    /\ r_data = TokenData(0, "")
    /\ r_expired = FALSE
    /\ r_calls = 0
    /\ r_trips = 0
    /\ r_last = [before |-> TokenData(0, ""), expired |-> FALSE, trips |-> 0, raised |-> FALSE,
                issued |-> ""]
    /\ r_streak = 0
    /\ e_data \in {TokenData(0, r) : r \in {"", "r0"}}
    /\ e_refresh = "none"
    /\ UploadIdle

\* an engine that goes on to the transfer when the refresh has failed
EngineBeginDespiteRefresh ==
    /\ e_pc = "call"
    /\ \E expired \in BOOLEAN, answer \in RefreshAnswers(e_data.token + 1) :
          LET r == RefreshTokenIfNeeded(e_data, expired, answer)
          IN  /\ e_data' = r.data
              /\ e_refresh' = IF r.trips = 0 THEN "none"
                              ELSE IF r.raised THEN "failed" ELSE "ok"
              /\ e_body' = Body(e_in.title, e_in.description, <<>>, e_in.privacy_status)
              /\ e_pc' = "next_chunk"
              /\ UNCHANGED e_result
    /\ UNCHANGED <<auxVars, botVars, e_in, e_retry, e_attempts, e_outs, e_sleeps>>

\* lines 131-170.  expired: what credentials.expired says; answer: what the
\* token endpoint answers if asked.  refresh_token_if_needed raises when the
\* refresh fails, and line 200 turns that into None
EngineBegin ==
    /\ e_pc = "call"
    /\ \E expired \in BOOLEAN, answer \in RefreshAnswers(e_data.token + 1) :
          LET r == RefreshTokenIfNeeded(e_data, expired, answer)
          IN  /\ e_data' = r.data
              /\ e_refresh' = IF r.trips = 0 THEN "none"
                              ELSE IF r.raised THEN "failed" ELSE "ok"
              /\ IF ~r.raised
                 THEN /\ e_body' = Body(e_in.title, e_in.description, <<>>,
                                        e_in.privacy_status)
                      /\ e_pc' = "next_chunk"
                      /\ UNCHANGED e_result
                 ELSE /\ e_pc' = "done"
                      /\ e_result' = "none"
                      /\ UNCHANGED e_body
    /\ UNCHANGED <<auxVars, botVars, e_in, e_retry, e_attempts, e_outs, e_sleeps>>

\* one pass of the while loop: next_chunk() answers with out.  Inside the
\* loop every earlier answer was a retriable error or a partial one, so
\* e_attempts - e_retry partial answers were given.  The answers and the
\* delays are recorded when the call is followed on its own (u_pc = "idle")
EngineChunk ==
    /\ e_pc = "next_chunk"
    /\ \E out \in Outcomes :
          LET r == OnChunk(out, e_retry)
          IN  /\ out = Partial => e_attempts - e_retry < MaxPartial
              /\ e_attempts' = e_attempts + 1
              /\ e_outs' = IF u_pc = "idle" THEN e_outs \cup {out} ELSE e_outs
              /\ e_retry' = r.retry
              /\ e_pc' = CASE r.next = "loop" -> "next_chunk"
                           [] r.next = "sleep" -> "sleep"
                           [] OTHER -> "done"
              /\ e_result' = IF r.next = "return_id" THEN "vid" ELSE "none"
              /\ e_sleeps' = IF r.next = "sleep" /\ u_pc = "idle"
                             THEN Append(e_sleeps, r.delay) ELSE e_sleeps
    /\ UNCHANGED <<auxVars, botVars, e_in, e_body, e_data, e_refresh>>

\* the backoff sleep ends
EngineWake ==
    /\ e_pc = "sleep"
    /\ e_pc' = "next_chunk"
    /\ UNCHANGED <<auxVars, botVars, e_in, e_body, e_retry, e_result, e_attempts, e_outs,
                   e_sleeps, e_data, e_refresh>>

NextEngine == EngineBegin \/ EngineChunk \/ EngineWake

SpecEngine == InitEngine /\ [][NextEngine]_vars

\* the same call when every next_chunk() call returns or raises and every
\* asyncio.sleep ends: the coroutine is resumed whenever it can go on
SpecEngineLive == InitEngine /\ [][NextEngine]_vars /\ WF_vars(NextEngine)

(***************************************************************************)
(* One call of VideoHandler.upload_video_to_youtube, step by step, with    *)
(* the engine call above as the transfer task that _upload_with_progress   *)
(* creates.  u_pc:                                                         *)
(*   start     before db.get_oauth_token                                   *)
(*   prep      before the "Preparing upload" message                       *)
(*   download  inside _download_video                                      *)
(*   edit10, edit20, edit30, edit100                                       *)
(*             suspended in the edit that shows that percentage            *)
(*   announce  suspended in an edit of the loop over progress_values       *)
(*   await     suspended in "await upload_task"                            *)
(*   result    _upload_with_progress has returned u_vid                    *)
(*   except    in the handler of lines 164-167                             *)
(*   returned, raised                                                      *)
(*             the call is over                                            *)
(***************************************************************************)
\* checkpoints that show 40 percent twice
ProgressValuesRepeated == <<40, 40, 50, 60, 70, 80>>

\* line 219
ProgressValues == <<40, 50, 60, 70, 80, 90>>

\* the user_state dict the call was given
UpDict == user_states[Uploader]

\* upload_task.done(), without the check
TaskDoneNever == FALSE

\* upload_task.done(), lines 221 and 237
TaskDone == e_pc = "done"

\* _cleanup_file, lines 253-260, called with the path of a file that
\* exists.  removed: os.remove returned; its error is logged and swallowed
CleanupFile(removed) == IF removed THEN "none" ELSE u_disk

InitUpload ==
    /\ env = <<>>
    /\ allowed_users = Members(ParseAllowedUsers(env))
    /\ c_pc = "parsed"
    /\ c_ask = NoAsk
    /\ user_states \in
         {[u \in Users |->
             IF u = Uploader
             THEN [state |-> "waiting_description",
                   file |-> CHOOSE f \in Files : f.file_id = "f1",
                   title |-> MyTrip, description |-> d]
             ELSE NoState] : d \in {Absent, MyTrip}}
    /\ u_store \in {<<>>} \cup {<<TokenData(0, r)>> : r \in {"", "r0"}}
    /\ tokens = [u \in Users |-> u = Uploader /\ u_store # <<>>]
    /\ uploads = EmptyBag
    /\ jobs = EmptyBag
    /\ disk = {}
    /\ last = NoReply
    /\ calls = {}
    /\ trace = TRUE
    /\ faults = TRUE
    /\ e_pc = "idle"
    /\ e_in = NoCall
    /\ e_body = Body(<<>>, <<>>, <<>>, "")
    /\ e_retry = 0
    /\ e_result = "none"
    /\ e_attempts = 0
    /\ e_outs = {}
    /\ e_sleeps = <<>>
    /\ e_data = TokenData(0, "")
    /\ e_refresh = "none"
    /\ pending = {}
    /\ r_data = TokenData(0, "")
    /\ r_expired = FALSE
    /\ r_calls = 0
    /\ r_trips = 0
    /\ r_last = [before |-> TokenData(0, ""), expired |-> FALSE, trips |-> 0, raised |-> FALSE,
                issued |-> ""]
    /\ r_streak = 0
    /\ u_pc = "start"
    /\ u_data = <<>>
    /\ u_disk = "none"
    /\ u_started = <<>>
    /\ u_failed = {}
    /\ u_other = FALSE
    /\ u_vid = "none"

\* lines 92-97.  dbget: the read of the database succeeded (get_oauth_token
\* returns None when it did not); sent: the reply reached the chat
UpGetToken ==
    /\ u_pc = "start"
    /\ \E dbget, sent \in Maybe :
          LET token_data == IF dbget THEN u_store ELSE <<>>
          IN  /\ u_data' = token_data
              /\ IF token_data # <<>>
                 THEN /\ u_pc' = "prep"
                      /\ u_other' = u_other
                      /\ last' = last
                 ELSE /\ u_pc' = IF sent THEN "returned" ELSE "except"
                      /\ u_other' = (u_other \/ ~dbget \/ ~sent)
                      /\ last' = IF sent THEN Reply(Uploader, "job", "auth_required_upload")
                                 ELSE last
    /\ UNCHANGED <<cfgVars, allowed_users, trace, faults, disk, calls,
                   user_states, tokens, uploads, jobs,
                   engVars, pending, refVars, u_store, u_disk, u_started, u_failed, u_vid>>

\* lines 99-103
UpPrepare ==
    /\ u_pc = "prep"
    /\ \E sent \in Maybe :
          /\ u_pc' = IF sent THEN "download" ELSE "except"
          /\ u_other' = (u_other \/ ~sent)
          /\ last' = IF sent THEN Reply(Uploader, "job", "progress") ELSE last
    /\ UNCHANGED <<cfgVars, allowed_users, trace, faults, disk, calls,
                   user_states, tokens, uploads, jobs,
                   engVars, pending, refVars, u_store, u_data, u_disk, u_started,
                   u_failed, u_vid>>

\* lines 105-116 and _download_video, lines 171-194.  how: what
\* download_media left at temp_file_path: the file, an empty file (None is
\* returned, line 190) or nothing.  Lines 107-109 are outside the inner try:
\* no cleanup follows them.  With the file, the edit to 10 percent starts
UpDownload ==
    /\ u_pc = "download"
    /\ \E how \in {"full", "empty", "none"}, sent \in Maybe :
          /\ u_disk' = how
          /\ IF how = "full"
             THEN /\ u_pc' = "edit10"
                  /\ u_started' = Append(u_started, 10)
                  /\ UNCHANGED <<u_other, last>>
             ELSE /\ u_pc' = IF sent THEN "returned" ELSE "except"
                  /\ u_other' = TRUE
                  /\ last' = IF sent THEN Reply(Uploader, "job", "download_failed") ELSE last
                  /\ UNCHANGED u_started
    /\ UNCHANGED <<cfgVars, allowed_users, trace, faults, disk, calls,
                   user_states, tokens, uploads, jobs,
                   engVars, pending, refVars, u_store, u_data, u_failed, u_vid>>

\* lines 112-130: the edits to 10 and to 20 percent are inside the inner try
\* only; when one raises, the finally clause runs and the handler of line
\* 164 is entered.  ok: the edit reached the chat
UpEarlyEdit ==
    /\ u_pc \in {"edit10", "edit20"}
    /\ \E ok, removed \in Maybe :
          IF ok
          THEN /\ u_pc' = IF u_pc = "edit10" THEN "edit20" ELSE "edit30"
               /\ u_started' = Append(u_started, IF u_pc = "edit10" THEN 20 ELSE 30)
               /\ UNCHANGED <<u_failed, u_disk, u_other>>
          ELSE /\ u_pc' = "except"
               /\ u_failed' = u_failed \cup {u_started[Len(u_started)]}
               /\ u_disk' = CleanupFile(removed)
               /\ u_other' = (u_other \/ ~removed)
               /\ UNCHANGED u_started
    /\ UNCHANGED <<cfgVars, allowed_users, trace, faults, disk, calls,
                   user_states, tokens, uploads, jobs, last,
                   engVars, pending, refVars, u_store, u_data, u_vid>>

\* _upload_with_progress, lines 200-228: the edit to 30 percent returns, the
\* transfer task is created with the dict read at line 93, the loop finds
\* the new task not done and starts the edit to 40 percent.  When the edit
\* to 30 percent raises, line 249 returns None and no task is created
UpEdit30 ==
    /\ u_pc = "edit30"
    /\ e_pc = "idle"
    /\ \E ok \in Maybe :
          IF ok
          THEN /\ e_pc' = "call"
               /\ e_in' = [title |-> DictGet(UpDict.title, Untitled),
                           description |->
                               FinalDescription(DictGet(UpDict.description, <<>>)),
                           privacy_status |-> "private"]
               /\ e_data' = u_data[1]
               /\ u_started' = Append(u_started, ProgressValues[1])
               /\ u_pc' = "announce"
               /\ UNCHANGED u_failed
          ELSE /\ u_failed' = u_failed \cup {30}
               /\ u_pc' = "result"
               /\ UNCHANGED <<e_pc, e_in, e_data, u_started>>
    /\ UNCHANGED <<cfgVars, allowed_users, trace, faults, disk, calls,
                   user_states, tokens, uploads, jobs, last,
                   e_body, e_retry, e_result, e_attempts, e_outs, e_sleeps, e_refresh,
                   pending, refVars, u_store, u_data, u_disk, u_other, u_vid>>

\* lines 220-234, while the transfer task is suspended or over: the edit in
\* flight returns or raises (both FloodWait and any other error are caught),
\* the pause of line 234 ends, and the next pass starts its edit unless the
\* task is done or progress_values is exhausted
UpAnnounce ==
    /\ u_pc = "announce"
    /\ e_pc \in {"sleep", "done"}
    /\ \E ok \in Maybe :
          LET n == Len(u_started) - 3
          IN  /\ u_failed' = IF ok THEN u_failed
                             ELSE u_failed \cup {u_started[Len(u_started)]}
              /\ IF n < Len(ProgressValues) /\ ~TaskDone
                 THEN /\ u_started' = Append(u_started, ProgressValues[n + 1])
                      /\ UNCHANGED u_pc
                 ELSE /\ u_pc' = "await"
                      /\ UNCHANGED u_started
    /\ UNCHANGED <<cfgVars, allowed_users, trace, faults, disk, calls,
                   user_states, tokens, uploads, jobs, last,
                   engVars, pending, refVars, u_store, u_data, u_disk, u_other, u_vid>>

\* lines 237-245: the task is over and its result is read; with a video id
\* the edit to 100 percent starts
UpAwait ==
    /\ u_pc = "await"
    /\ TaskDone
    /\ IF e_result # "none"
       THEN /\ u_started' = Append(u_started, 100)
            /\ u_pc' = "edit100"
       ELSE /\ u_pc' = "result"
            /\ UNCHANGED u_started
    /\ UNCHANGED <<cfgVars, allowed_users, trace, faults, disk, calls,
                   user_states, tokens, uploads, jobs, last,
                   engVars, pending, refVars, u_store, u_data, u_disk, u_failed,
                   u_other, u_vid>>

\* lines 241-251: when the edit to 100 percent raises, line 251 returns None
\* in place of the video id
UpEdit100 ==
    /\ u_pc = "edit100"
    /\ \E ok \in Maybe :
          /\ u_vid' = IF ok THEN e_result ELSE "none"
          /\ u_failed' = IF ok THEN u_failed ELSE u_failed \cup {100}
    /\ u_pc' = "result"
    /\ UNCHANGED <<cfgVars, allowed_users, trace, faults, disk, calls,
                   user_states, tokens, uploads, jobs, last,
                   engVars, pending, refVars, u_store, u_data, u_disk, u_started, u_other>>

\* lines 137-162: the record is saved, the outcome is shown, the finally
\* clause removes the file.  dbok: the insert succeeded; sent: the outcome
\* message reached the chat
UpResult ==
    /\ u_pc = "result"
    /\ \E dbok, sent, removed \in Maybe :
          /\ uploads' = IF u_vid # "none"
                        THEN AddUploadRecord(
                               [user_id |-> Uploader, video_id |-> u_vid,
                                title |-> DictGet(UpDict.title, Untitled),
                                description |->
                                    FinalDescription(DictGet(UpDict.description, <<>>)),
                                file_name |-> UpDict.file.file_name], dbok)
                        ELSE uploads
          /\ u_disk' = CleanupFile(removed)
          /\ u_other' = (u_other \/ ~removed \/ ~sent \/ (u_vid # "none" /\ ~dbok))
          /\ u_pc' = IF sent THEN "returned" ELSE "except"
          /\ last' = IF ~sent THEN last
                     ELSE Reply(Uploader, "job",
                                IF u_vid # "none" THEN "upload_success" ELSE "upload_failed")
    /\ UNCHANGED <<cfgVars, allowed_users, trace, faults, disk, calls,
                   user_states, tokens, jobs,
                   engVars, pending, refVars, u_store, u_data, u_started, u_failed, u_vid>>

\* lines 164-169.  replied: the error reply reached the chat; if not, the
\* call raises into the handler that made it
UpExcept ==
    /\ u_pc = "except"
    /\ \E replied \in Maybe :
          /\ u_pc' = IF replied THEN "returned" ELSE "raised"
          /\ u_other' = (u_other \/ ~replied)
          /\ last' = Reply(Uploader, "job",
                           IF replied THEN "upload_error" ELSE "error_occurred")
    /\ UNCHANGED <<cfgVars, allowed_users, trace, faults, disk, calls,
                   user_states, tokens, uploads, jobs,
                   engVars, pending, refVars, u_store, u_data, u_disk, u_started,
                   u_failed, u_vid>>

NextUpload ==
    \/ UpGetToken
    \/ UpPrepare
    \/ UpDownload
    \/ UpEarlyEdit
    \/ UpEdit30
    \/ EngineBegin
    \/ EngineChunk
    \/ EngineWake
    \/ UpAnnounce
    \/ UpAwait
    \/ UpEdit100
    \/ UpResult
    \/ UpExcept

SpecUpload == InitUpload /\ [][NextUpload]_vars


(***************************************************************************)
(* Notions the claims are stated with                                      *)
(***************************************************************************)
\* s is t without the whitespace around it
IsTrimOf(s, t) ==
    /\ s = <<>> \/ (Head(s) \notin {" "} /\ s[Len(s)] \notin {" "})
    /\ Len(s) <= Len(t)
    /\ \E l \in 0..(Len(t) - Len(s)) :
          t = Rep(" ", l) \o s \o Rep(" ", Len(t) - Len(s) - l)

\* t without the whitespace around it (at most MaxPad characters a side)
Trimmed(t) ==
    CHOOSE s \in {SubSeq(t, 1 + l, Len(t) - r) : l, r \in 0..MaxPad} : IsTrimOf(s, t)

\* t is the word skip in some letter case
IsSkip(t) ==
    /\ Len(t) = 4
    /\ t[1] \in {"s", "S"}
    /\ t[2] \in {"k", "K"}
    /\ t[3] \in {"i", "I"}
    /\ t[4] \in {"p", "P"}

\* the upload operations of user u that have not returned
NumJobs(u) == BagCardinality([j \in {k \in DOMAIN jobs : k.uid = u} |-> jobs[j]])

\* the transfers of user u under way: transfer task created and not finished
NumTransfers(u) ==
    BagCardinality([j \in {k \in DOMAIN jobs :
                              k.uid = u /\ k.pc \in {"scheduled", "chunk", "backoff"}}
                    |-> jobs[j]])

Commands == {"start", "auth", "upload", "history", "stats", "help", "cancel"}

(***************************************************************************)
(* Claims                                                                  *)
(***************************************************************************)

\* C1 (as stated): every command and every media event of a user who is not
\* on a non-empty allow-list is answered with the authorization failure, and
\* the user has no conversation state before or after.
C1_UnallowedRejected ==
    (last.uid \in Users /\ allowed_users # {} /\ last.uid \notin allowed_users
        /\ last.ev \in Commands \cup {"video"})
    => (last.msg = "not_authorized" /\ ~HasState(last.uid))

\* C2 (as stated): a user never has two transfers under way at once.
C2_OneUploadPerUser == \A u \in Users : NumTransfers(u) <= 1

\* C3 (as stated): in waiting_title a text longer than 100 is rejected and
\* changes nothing; a text of at most 100 becomes the title as it is and the
\* step becomes waiting_description, the file kept.
C3_TitleAsStated ==
    [][\A u \in Users, t \in Texts :
          (user_states[u].state = "waiting_title" /\ HandleText(u, t))
          => IF Len(t) > 100
             THEN user_states' = user_states /\ last'.msg = "title_too_long"
             ELSE user_states' =
                     [user_states EXCEPT ![u].title = t,
                                         ![u].state = "waiting_description"]]_vars

\* C3 (amended): the limit applies to the text without the whitespace around
\* it: longer than 100, it is rejected and nothing changes; at most 100
\* (exactly 100 included), the trimmed text becomes the title and the step
\* becomes waiting_description, the file kept.
C3_TitleTrimmed ==
    [][\A u \in Users, t \in Texts :
          (user_states[u].state = "waiting_title" /\ HandleText(u, t))
          => IF Len(Trimmed(t)) > 100
             THEN user_states' = user_states /\ last'.msg = "title_too_long"
             ELSE user_states' =
                     [user_states EXCEPT ![u].title = Trimmed(t),
                                         ![u].state = "waiting_description"]]_vars

\* C3 witness: a title of exactly 100 characters has just been accepted, the
\* file still there.
C3_Witness ==
    \E u \in Users :
        /\ last = [uid |-> u, ev |-> "text", msg |-> "title_set"]
        /\ user_states[u].state = "waiting_description"
        /\ Len(user_states[u].title) = 100
        /\ user_states[u].file # NoFile

\* C4: a cancel leaves the user with no conversation state whatever the step
\* was, an upload running or not; at no state it changes nothing and is
\* answered with the no-op notice.
C4_Cancel ==
    [][\A u \in Users :
          HandleCancel(u)
          => /\ user_states'[u] = NoState
             /\ \A v \in Users \ {u} : user_states'[v] = user_states[v]
             /\ last'.msg = IF HasState(u) THEN "cancelled" ELSE "nothing_to_cancel"
             /\ ~HasState(u) => UNCHANGED <<user_states, tokens, uploads, jobs>>]_vars

\* C4 witness: a cancel was handled while the user's upload was running, and
\* the state is gone.
C4_Witness ==
    \E u \in Users :
        /\ last = [uid |-> u, ev |-> "cancel", msg |-> "cancelled"]
        /\ NumJobs(u) = 1
        /\ user_states[u] = NoState

\* C5: when every answer of the transport is a retriable error (500, 502,
\* 503, 504) the engine ends after exactly 6 attempts with a failure; when
\* the first answer is a non-retriable error it ends after that one attempt
\* with a failure.
C5_RetryCap ==
    /\ (e_pc = "done" /\ e_outs # {}
          /\ \A o \in e_outs : o.kind = "http" /\ o.status \in {500, 502, 503, 504})
       => (e_attempts = 6 /\ e_result = "none")
    /\ \A o \in e_outs :
          (e_outs = {o} /\ (o.kind = "exception"
                              \/ (o.kind = "http" /\ o.status \notin {500, 502, 503, 504})))
          => (e_pc = "done" /\ e_attempts = 1 /\ e_result = "none")

\* C5 witness: six attempts, all answered with retriable errors, and the
\* engine has given up.
C5_Witness ==
    /\ e_pc = "done"
    /\ e_attempts = 6
    /\ e_result = "none"
    /\ e_outs = {HttpError(500), HttpError(502), HttpError(503), HttpError(504)}

\* C6 (as stated): in waiting_description the text skip, in any letter case,
\* stores the empty description; any other text is stored as it is.
C6_DescriptionAsStated ==
    [][\A u \in Users, t \in Texts :
          (user_states[u].state = "waiting_description" /\ HandleText(u, t))
          => user_states'[u].description = IF IsSkip(t) THEN <<>> ELSE t]_vars

\* C6 (amended): the text is taken without the whitespace around it: if that
\* is skip in any letter case the empty description is stored, otherwise the
\* trimmed text is stored.
C6_DescriptionTrimmed ==
    [][\A u \in Users, t \in Texts :
          (user_states[u].state = "waiting_description" /\ HandleText(u, t))
          => user_states'[u].description =
                IF IsSkip(Trimmed(t)) THEN <<>> ELSE Trimmed(t)]_vars

\* C6 witness: the sentinel was sent, the empty description is stored and
\* the upload it started has not returned.
C6_Witness ==
    \E u \in Users :
        /\ user_states[u].state = "waiting_description"
        /\ user_states[u].description = <<>>
        /\ NumJobs(u) = 1

\* C7: a description submitted in waiting_description starts an upload
\* operation in the same step, and whenever an upload operation returns
\* (upload succeeded, failed, or not started for want of a credential or of
\* the file) its user has no conversation state.
C7_UploadThenClear ==
    [][/\ \A u \in Users, t \in Texts :
             (user_states[u].state = "waiting_description" /\ HandleText(u, t))
             => NumJobs(u)' = NumJobs(u) + 1
       /\ \A j \in JobSet :
             (j.pc = "return" /\ JobReturn(j)) => user_states'[j.uid] = NoState]_vars

\* C7 witness: an upload operation has returned after its failure was
\* reported, and its user has no conversation state.
C7_Witness ==
    /\ last = [uid |-> Uploader, ev |-> "job", msg |-> "upload_failed"]
    /\ uploads = EmptyBag
    /\ jobs = EmptyBag
    /\ user_states[Uploader] = NoState

\* C8 (as stated): after a code was submitted in waiting_auth_code the user
\* has no conversation state, the exchange having succeeded or failed.
C8_AuthCodeEndsInNone ==
    (last.ev = "text" /\ last.msg \in {"auth_success", "invalid_code"})
    => ~HasState(last.uid)

\* C9 (as stated): while an upload of a user is running, a command of any
\* other user can be handled.
C9_OtherUserNotBlocked ==
    \A j \in JobSet, b \in Users : b # j.uid => ENABLED HandleCancel(b)

\* C10 (as stated): the metadata handed to the platform has privacyStatus
\* private, selfDeclaredMadeForKids false and category 22, whatever
\* privacy_status the caller passed.
C10_AlwaysPrivate ==
    e_pc \in {"next_chunk", "sleep", "done"}
    => (e_body.privacyStatus = "private"
        /\ e_body.selfDeclaredMadeForKids = FALSE
        /\ e_body.categoryId = "22")

\* a media file process_video accepts
ValidFile(f) ==
    /\ f.file_size <= MaxFileSize
    /\ f.mime_type = "" \/ f.mime_type \in SupportedFormats

\* what a running upload operation is doing, the dict reference left out
Progress(j) ==
    [uid |-> j.uid, pc |-> j.pc, title |-> j.title, description |-> j.description,
     video_id |-> j.video_id, file |-> JobDict(j).file]

\* C14: with no prior credential and nothing failing: auth opens
\* waiting_auth_code; a code stores the credential and clears the state; a
\* video opens waiting_title with the file; "My Trip" opens
\* waiting_description with that title; "skip" starts the upload, which hands
\* the engine the title "My Trip" and the bare signature as description, gets
\* a video id, persists exactly one record and ends with no state.
C14_EndToEnd ==
    [][\A u \in Users :
          /\ (~tokens[u] /\ IsUserAllowed(u) /\ HandleAuth(u))
             => /\ user_states'[u].state = "waiting_auth_code"
                /\ last'.msg = "auth_url"
          /\ \A t \in TripTexts :
                (user_states[u].state = "waiting_auth_code" /\ HandleText(u, t))
                => tokens'[u] /\ user_states'[u] = NoState
          /\ \A f \in MediaFiles :
                (tokens[u] /\ IsUserAllowed(u) /\ ValidFile(f) /\ HandleVideo(u, f))
                => user_states'[u].state = "waiting_title" /\ user_states'[u].file = f
          /\ (user_states[u].state = "waiting_title" /\ HandleText(u, MyTrip))
             => /\ user_states'[u].state = "waiting_description"
                /\ user_states'[u].title = MyTrip
                /\ user_states'[u].file = user_states[u].file
          /\ (user_states[u].state = "waiting_description" /\ HandleText(u, SkipWord))
             => /\ user_states'[u].description = <<>>
                /\ NumJobs(u)' = NumJobs(u) + 1
          /\ \A j \in JobSet :
                /\ (j.uid = u /\ j.pc = "start" /\ JobDict(j).title = MyTrip
                        /\ JobDict(j).description = <<>> /\ JobPrepare(j))
                   => \E k \in BagToSet(jobs') :
                         /\ k.pc = "scheduled"
                         /\ k.title = MyTrip
                         /\ k.description = Signature
                         /\ jobs' = Replace(j, k)
                /\ (j.uid = u /\ j.pc = "chunk" /\ ChunkReturn(j))
                   => jobs' = Replace(j, [j EXCEPT !.pc = "done", !.video_id = "vid"])
                /\ (j.uid = u /\ j.pc = "done" /\ JobRecord(j))
                   => /\ uploads' = uploads (+) BagOf(
                            [user_id |-> u, video_id |-> "vid", title |-> j.title,
                             description |-> j.description,
                             file_name |-> j.dict.file.file_name])
                      /\ last'.msg = "upload_success"
                /\ (j.uid = u /\ j.pc = "return" /\ JobReturn(j))
                   => user_states'[u] = NoState]_vars

\* C14 witness: the dialogue has run to its end: the credential is stored,
\* exactly one record is persisted, with the title "My Trip", the bare
\* signature and the video id, and no state is left.
C14_Witness ==
    /\ tokens[Uploader]
    /\ user_states[Uploader] = NoState
    /\ jobs = EmptyBag
    /\ last = [uid |-> Uploader, ev |-> "job", msg |-> "upload_success"]
    /\ uploads = BagOf([user_id |-> Uploader, video_id |-> "vid", title |-> MyTrip,
                        description |-> Signature, file_name |-> "a.mp4"])

\* C15: a cancel handled while the user's upload operation runs removes the
\* conversation state and leaves every running upload operation where it
\* was; a transfer that succeeded has its record persisted whether or not
\* its user still has a state.
C15_CancelKeepsUpload ==
    [][/\ \A u \in Users :
             (NumJobs(u) > 0 /\ HandleCancel(u))
             => /\ user_states'[u] = NoState
                /\ BagCardinality(jobs') = BagCardinality(jobs)
                /\ \A j \in JobSet :
                      \E k \in BagToSet(jobs') : Progress(k)' = Progress(j)
       /\ \A j \in JobSet :
             (j.pc = "done" /\ j.video_id # "none" /\ JobRecord(j))
             => uploads' = uploads (+) BagOf(UploadRecord(j))]_vars

\* C15 witness: the user cancelled while the upload ran, and the transfer
\* is in its chunk call after that, the state gone.
C15_Witness ==
    \E j \in JobSet :
        /\ j.pc = "chunk"
        /\ last = [uid |-> j.uid, ev |-> "cancel", msg |-> "cancelled"]
        /\ user_states[j.uid] = NoState

\* C19: an upload command opens waiting_video only for a user with a
\* credential; for an allowed user without one it is answered with the
\* auth-required response and the conversation state stays as it was.
C19_UploadNeedsCredential ==
    [][\A u \in Users :
          HandleUploadCommand(u)
          => /\ last'.msg = "upload_prompt"
                => tokens[u] /\ user_states'[u] = FreshState("waiting_video")
             /\ last'.msg # "upload_prompt" => user_states' = user_states
             /\ (IsUserAllowed(u) /\ ~tokens[u])
                => last'.msg = "auth_required" /\ user_states' = user_states]_vars

\* C19 witness: an upload command of a user without a credential was
\* answered auth-required and the step the user was in is still there.
C19_Witness ==
    \E u \in Users :
        /\ last = [uid |-> u, ev |-> "upload", msg |-> "auth_required"]
        /\ ~tokens[u]
        /\ user_states[u].state = "waiting_auth_code"

\* C20: a valid media event of an allowed user with a credential leaves the
\* user at waiting_title with the event's file and no title or description,
\* whatever the state was; one of an allowed user without a credential is
\* answered auth-required and changes no state.
C20_VideoOpensTitleStep ==
    [][\A u \in Users, f \in MediaFiles :
          (IsUserAllowed(u) /\ HandleVideo(u, f))
          => IF tokens[u]
             THEN ValidFile(f)
                  => user_states'[u] = [state |-> "waiting_title", file |-> f,
                                        title |-> Absent, description |-> Absent]
             ELSE last'.msg = "auth_required" /\ user_states' = user_states]_vars

\* C20 witness: a video was accepted after an earlier dialogue of the user
\* had run to a persisted upload; the user is at waiting_title with the file
\* and no title.
C20_Witness ==
    /\ last = [uid |-> Uploader, ev |-> "video", msg |-> "video_details"]
    /\ uploads # EmptyBag
    /\ user_states[Uploader].state = "waiting_title"
    /\ user_states[Uploader].file.file_id = "f1"
    /\ user_states[Uploader].title = Absent

\* C18 (as stated): under every interleaving, waiting_auth_code is entered
\* only when the user has no credential at that moment, and an auth command
\* that finds a credential leaves the conversation state unchanged.
C18_AuthOnlyWithoutCredential ==
    [][\A p \in pending :
          AuthResume(p)
          => /\ (user_states[p.uid].state # "waiting_auth_code"
                   /\ user_states'[p.uid].state = "waiting_auth_code")
                => ~tokens[p.uid]
             /\ tokens[p.uid] => user_states' = user_states]_vars

\* C13: a call of refresh_token_if_needed on a credential whose access
\* token has not expired, or that has no refresh token, makes no refresh
\* round trip, does not raise and leaves every field of the credential as it
\* was; a second such call in a row makes no round trip either.
C13_FreshIsLeftAlone ==
    /\ (r_calls > 0 /\ (~r_last.expired \/ r_last.before.refresh_token = ""))
       => (r_last.trips = 0 /\ ~r_last.raised /\ r_data = r_last.before)
    /\ r_streak >= 2 => r_last.trips = 0
    /\ r_trips <= r_calls - r_streak

\* C13 witness: two calls in a row on a credential with a refresh token and
\* an unexpired access token, and no round trip made.
C13_Witness ==
    /\ r_calls = 2
    /\ r_streak = 2
    /\ r_trips = 0
    /\ r_data.refresh_token = "r0"
    /\ ~r_expired

\* the call of upload_video_to_youtube is over
UploadOver == u_pc \in {"returned", "raised"}

\* C11: when the upload operation is over, by returning or by raising, the
\* temporary file that the download created is no longer on disk
C11_TempFileRemoved ==
    UploadOver => u_disk = "none"

\* C12: once the transfer task has refreshed the access token with success
\* and the upload operation is over, the persisted credential of the user
\* holds the new access token
C12_RefreshIsPersisted ==
    (UploadOver /\ e_refresh = "ok")
    => (u_store # <<>> /\ u_store[1].token = e_data.token)

\* C16: an announcement of a checkpoint of 40..90 starts only while the
\* transfer task is not done, and _upload_with_progress, once it has created
\* the task, is left only when the task is done
C16_AnnouncerStopsWithTransfer ==
    [][/\ (/\ Len(u_started') > Len(u_started)
           /\ \E i \in DOMAIN ProgressValues :
                 u_started'[Len(u_started')] = ProgressValues[i])
          => e_pc' # "done"
       /\ (u_pc \in {"announce", "await", "edit100"} /\ u_pc' # u_pc)
          => (u_pc' \in {"await", "edit100", "result"}
              /\ (u_pc' # "await" => e_pc' = "done"))]_vars

\* the transfer ended while the announcement of 50 percent was in flight:
\* no further checkpoint was announced and the wrapper returned the video id
C16_Witness ==
    /\ u_pc = "result"
    /\ u_vid = "vid"
    /\ e_pc = "done"
    /\ u_started = <<10, 20, 30, 40, 50, 100>>

\* C17: when progress updates are the only calls that failed during an
\* upload operation, the transfer ran to its end, and a video id it returned
\* is reported as a success and recorded
C17_ProgressFailureIsHarmless ==
    (UploadOver /\ u_failed # {} /\ ~u_other)
    => /\ e_pc = "done"
       /\ e_result = "vid"
          => (last.msg = "upload_success" /\ uploads # EmptyBag)

\* C21: a media event of a user who is allowed and holds a credential is
\* rejected with the size explanation when the file is larger than the
\* maximum, with the format explanation when it carries a mime type that is
\* not supported, and the conversation states stay as they were; any other
\* file, one of exactly the maximum size and one with no mime type
\* included, is accepted: the user is in waiting_title with that file
C21_MediaValidation ==
    [][\A f \in MediaFiles :
          (IsUserAllowed(Uploader) /\ tokens[Uploader] /\ HandleVideo(Uploader, f))
          => IF f.file_size > MaxFileSize
             THEN user_states' = user_states /\ last'.msg = "file_too_large"
             ELSE IF f.mime_type # "" /\ f.mime_type \notin SupportedFormats
             THEN user_states' = user_states /\ last'.msg = "unsupported_format"
             ELSE /\ user_states'[Uploader].state = "waiting_title"
                  /\ user_states'[Uploader].file = f
                  /\ last'.msg = "video_details"]_vars

\* a document with no mime type was accepted
C21_Witness ==
    /\ last = [uid |-> Uploader, ev |-> "video", msg |-> "video_details"]
    /\ user_states[Uploader].state = "waiting_title"
    /\ user_states[Uploader].file.mime_type = ""

\* C22: once the refresh at the start of the transfer has failed, the engine
\* call is over with no video id, no chunk was sent and the refresh is not
\* made again; no upload record is persisted; when the operation is over the
\* user has been sent a failure message, the upload-failure message if no
\* other call failed
C22_RefreshFailureIsFatal ==
    e_refresh = "failed"
    => /\ e_pc = "done"
       /\ e_result = "none"
       /\ e_attempts = 0
       /\ u_vid = "none"
       /\ uploads = EmptyBag
       /\ UploadOver
          => /\ last.msg \in {"upload_failed", "upload_error", "error_occurred"}
             /\ ~u_other => last.msg = "upload_failed"

\* the refresh failed and the operation returned after the failure message
C22_Witness ==
    /\ e_refresh = "failed"
    /\ u_pc = "returned"
    /\ ~u_other
    /\ e_attempts = 0
    /\ uploads = EmptyBag
    /\ last = [uid |-> Uploader, ev |-> "job", msg |-> "upload_failed"]

\* the step is the handling of an event of user a: a command, a media
\* event, a text, or a step of an upload operation that a text of a started
EventOf(a) ==
    \/ HandleStart(a) \/ HandleHistory(a) \/ HandleStats(a) \/ HandleHelp(a)
    \/ HandleAuth(a) \/ HandleUploadCommand(a) \/ HandleCancel(a)
    \/ \E f \in Files : HandleVideo(a, f)
    \/ \E t \in Texts : HandleText(a, t)
    \/ \E j \in JobSet :
          /\ j.uid = a
          /\ JobPrepare(j) \/ XferRun(j) \/ ChunkReturn(j) \/ JobRecord(j) \/ JobReturn(j)

\* C23: the handling of an event of user a, whether it succeeds, is rejected
\* or fails with an error, changes neither the conversation state nor the
\* credential of any other user b
C23_OtherUsersUntouched ==
    [][\A a \in Users :
          EventOf(a)
          => \A b \in Users \ {a} :
                user_states'[b] = user_states[b] /\ tokens'[b] = tokens[b]]_vars

\* the upload of the first user has failed while the other user, holding a
\* credential, is in the middle of a dialogue
C23_Witness ==
    /\ \E j \in JobSet : j.uid = Uploader /\ j.pc = "return" /\ j.video_id = "none"
    /\ \E b \in Users \ {Uploader} :
          tokens[b] /\ user_states[b].state = "waiting_video"

\* C24: whenever the last reply is the success response to an auth code, a
\* credential of that user is persisted
C24_SuccessMeansCredential ==
    (last.ev = "text" /\ last.msg = "auth_success") => tokens[last.uid]

\* the step has sent user u a response to an event of kind ev
Answered(u, ev) == last'.uid = u /\ last'.ev = ev /\ last'.msg # "none"

\* the step is a handler of an event of user u that is not of kind ev and
\* returns within the step: every command, media event and text, except the
\* text that starts an upload operation
ReturnsAtOnce(u, ev) ==
    \/ ev # "start" /\ HandleStart(u)
    \/ ev # "history" /\ HandleHistory(u)
    \/ ev # "stats" /\ HandleStats(u)
    \/ ev # "help" /\ HandleHelp(u)
    \/ ev # "auth" /\ HandleAuth(u)
    \/ ev # "upload" /\ HandleUploadCommand(u)
    \/ ev # "cancel" /\ HandleCancel(u)
    \/ ev # "video" /\ \E f \in Files : HandleVideo(u, f)
    \/ /\ ev # "text"
       /\ user_states[u].state # "waiting_description"
       /\ \E t \in TripTexts : HandleText(u, t)

\* the upload operations of user u that have not sent their last message
OpenJobs(u) ==
    BagCardinality([j \in {k \in DOMAIN jobs : k.uid = u /\ k.pc # "return"}
                    |-> jobs[j]])

\* C25: a handler that returns within the step has sent the user of the
\* event a response to that event; an upload operation that a text started
\* has sent one when it ends, whether it succeeded, failed or raised; a
\* cancel event is accepted at every conversation step once the event loop
\* is free, and leaves the user with no conversation state
C25_AnsweredAndCancellable ==
    [][\A u \in Users :
          /\ ~ReturnsAtOnce(u, IF last'.uid = u /\ last'.msg # "none"
                               THEN last'.ev ELSE "none")
          /\ OpenJobs(u)' < OpenJobs(u) => Answered(u, "job")
          /\ LoopFree => ENABLED HandleCancel(u)
          /\ HandleCancel(u) => user_states'[u] = NoState]_vars

\* an upload operation ended by raising into the handler that started it,
\* and the user was sent the error message of that handler
C25_Witness ==
    /\ last = [uid |-> Uploader, ev |-> "job", msg |-> "error_occurred"]
    /\ jobs = EmptyBag
    /\ user_states[Uploader].state = "waiting_description"

\* C26: while the transfer of an upload of a user is under way, the step of
\* that user is uploading
C26_UploadingStep ==
    \A j \in JobSet :
        j.pc \in {"scheduled", "chunk", "backoff"}
        => user_states[j.uid].state = "uploading"

\* C27: an event of a user who is not allowed makes no call to the store,
\* to the OAuth client or to the upload engine and changes nothing that is
\* persisted; a command with a gate and a media event are answered with the
\* authorization failure and leave every conversation state as it was
C27_RejectionComesFirst ==
    [][\A u \in Users :
          ~IsUserAllowed(u)
          => /\ (\/ HandleStart(u) \/ HandleHistory(u) \/ HandleStats(u)
                 \/ HandleHelp(u) \/ HandleAuth(u) \/ HandleUploadCommand(u)
                 \/ \E f \in Files : HandleVideo(u, f))
                => /\ last' = [uid |-> u, ev |-> last'.ev, msg |-> "not_authorized"]
                   /\ calls' = {}
                   /\ UNCHANGED <<user_states, tokens, uploads, jobs>>
             /\ (HandleCancel(u) \/ \E t \in TripTexts : HandleText(u, t))
                => /\ calls' = {}
                   /\ UNCHANGED <<tokens, uploads, jobs>>]_vars

\* a media event of a user who is not on the allow-list was rejected, after
\* an allowed user had stored a credential
C27_Witness ==
    /\ allowed_users # {}
    /\ Uploader \notin allowed_users
    /\ last = [uid |-> Uploader, ev |-> "video", msg |-> "not_authorized"]
    /\ calls = {}
    /\ \E v \in allowed_users : tokens[v]

\* C28: in one engine call retry never decreases, a chunk that went through
\* leaves it as it is, the k-th backoff sleep lasts 2^k for k = 1..5, and the
\* failure that takes retry past 5 ends the call without a sleep
C28_BackoffSchedule ==
    [][/\ e_retry' >= e_retry
       /\ Len(e_sleeps') = (IF e_retry' > 5 THEN 5 ELSE e_retry')
       /\ \A k \in 1..Len(e_sleeps') : e_sleeps'[k] = 2 ^ k
       /\ e_retry' > 5 => (e_pc' = "done" /\ e_sleeps' = e_sleeps)]_vars

\* five sleeps of 2, 4, 8, 16, 32 with two chunks that went through in
\* between, then a sixth failure that ended the call
C28_Witness ==
    /\ e_pc = "done"
    /\ e_retry = 6
    /\ e_attempts = 8
    /\ e_sleeps = <<2, 4, 8, 16, 32>>
    /\ e_result = "none"

\* C29: when the upload operation is over, an upload record is persisted
\* exactly if the engine call returned a video id
C29_RecordIffVideoId ==
    UploadOver => (uploads # EmptyBag <=> e_result = "vid")

\* C30: the progress values announced in one upload operation are multiples
\* of ten from 10 to 100 in strictly increasing order, and 100 is announced
\* only when the transfer task is over and has returned a video id
C30_ProgressIncreases ==
    /\ \A i \in 1..Len(u_started) :
          /\ u_started[i] \in {10 * k : k \in 1..10}
          /\ i > 1 => u_started[i - 1] < u_started[i]
    /\ (\E i \in 1..Len(u_started) : u_started[i] = 100)
       => (e_pc = "done" /\ e_result = "vid")

\* every value from 10 to 100 was announced
C30_Witness ==
    /\ u_started = <<10, 20, 30, 40, 50, 60, 70, 80, 90, 100>>
    /\ e_result = "vid"
    /\ u_pc = "returned"

\* the engine call was answered with an error it does not retry
NotRetried(o) ==
    \/ o.kind = "exception"
    \/ o.kind = "http" /\ o.status \notin RetriableStatuses

\* C31: when every chunk attempt returns, the engine call ends; an answer
\* with an error that is not retriable ends it at once; and it ends with a
\* video id, or after the sixth retriable error (five retries), or at an
\* error that is not retriable, or before the loop when the refresh failed
C31_EngineTerminates ==
    /\ <>(e_pc = "done")
    /\ [](/\ (\E o \in e_outs : NotRetried(o))
             => (e_pc = "done" /\ e_result = "none")
          /\ e_pc = "done"
             => \/ e_result = "vid"
                \/ e_result = "none" /\ e_retry = MaxRetries + 1
                \/ e_result = "none" /\ e_retry <= MaxRetries /\ \E o \in e_outs : NotRetried(o)
                \/ e_result = "none" /\ e_refresh = "failed" /\ e_attempts = 0)

\* the call got its video id after five retries
C31_Witness ==
    /\ e_pc = "done"
    /\ e_result = "vid"
    /\ e_retry = MaxRetries
    /\ Len(e_sleeps) = MaxRetries

\* C32: after a call of refresh_token_if_needed that refreshed, the refresh
\* token of the credential is the one the token endpoint issued if it issued
\* one and the one held before otherwise, and token_uri, client_id,
\* client_secret and scopes are those held before
C32_RefreshKeepsRefreshToken ==
    (r_calls > 0 /\ r_last.trips > 0 /\ ~r_last.raised)
    => /\ r_data.refresh_token = IF r_last.issued = ""
                                 THEN r_last.before.refresh_token
                                 ELSE r_last.issued
       /\ r_data.refresh_token # ""
       /\ r_data.token_uri = r_last.before.token_uri
       /\ r_data.client_id = r_last.before.client_id
       /\ r_data.client_secret = r_last.before.client_secret
       /\ r_data.scopes = r_last.before.scopes

\* a refresh whose answer carried no refresh token: the access token is new,
\* the refresh token is the old one
C32_Witness ==
    /\ r_calls > 0
    /\ r_last.trips > 0
    /\ ~r_last.raised
    /\ r_last.issued = ""
    /\ r_data.token # r_last.before.token
    /\ r_data.refresh_token = "r0"

\* C33: no step of a handler or of an upload removes a stored credential: a
\* user who has one before the step has one after it
C33_CredentialIsNeverDeleted ==
    [][\A u \in Users : tokens[u] => tokens'[u]]_vars

\* the credential is still there after the commands, the video, the texts and
\* the upload that followed its creation
C33_Witness ==
    /\ tokens[Uploader]
    /\ uploads # EmptyBag
    /\ jobs = EmptyBag
    /\ user_states[Uploader] = NoState

\* the dict carries the file reference that process_video stores
HasPendingFile(d) ==
    /\ d.file # NoFile
    /\ d.file.file_id # ""
    /\ d.file.file_name # ""
    /\ d.file.file_size > 0

\* the dict carries a title that passed the length test
HasTitle(d) == d.title # Absent /\ Len(d.title) <= TitleLimit

\* C34: a dict at waiting_title carries file_id, file_name and file_size; a
\* dict at waiting_description carries them and a title of at most 100
\* characters; the dict an upload is started with carries both
C34_StepsCarryTheirData ==
    /\ \A u \in Users :
          /\ user_states[u].state = "waiting_title" => HasPendingFile(user_states[u])
          /\ user_states[u].state = "waiting_description"
             => HasPendingFile(user_states[u]) /\ HasTitle(user_states[u])
    /\ \A j \in JobSet :
          j.pc = "start" => HasPendingFile(JobDict(j)) /\ HasTitle(JobDict(j))

\* an upload is started with a title of exactly 100 characters
C34_Witness ==
    \E j \in JobSet :
       /\ j.pc = "start"
       /\ JobDict(j).state = "waiting_description"
       /\ Len(JobDict(j).title) = TitleLimit

\* C35: a user at waiting_video, waiting_title or waiting_description has a
\* stored credential, and a user who is not on a non-empty allow-list has no
\* entry in user_states
C35_StepsNeedCredentialAndGate ==
    \A u \in Users :
       /\ user_states[u].state \in {"waiting_video", "waiting_title", "waiting_description"}
          => tokens[u]
       /\ (allowed_users # {} /\ u \notin allowed_users) => user_states[u] = NoState

\* the first user, not on the list, was turned away at a video and has no
\* entry; the other user, on the list, is at waiting_video with a credential
C35_Witness ==
    /\ allowed_users # {}
    /\ Uploader \notin allowed_users
    /\ last = [uid |-> Uploader, ev |-> "video", msg |-> "not_authorized"]
    /\ user_states[Uploader] = NoState
    /\ \E u \in allowed_users : user_states[u].state = "waiting_video" /\ tokens[u]

\* C36 (as stated): when an upload returns while its user is at
\* waiting_video or waiting_title, a step opened by an upload command or a
\* video sent while the upload ran, the clearing leaves that entry of
\* user_states as it is.
C36_ClearingSparesNewState ==
    [][\A j \in JobSet :
          (/\ user_states[j.uid].state \in {"waiting_video", "waiting_title"}
           /\ JobReturn(j))
          => user_states'[j.uid] = user_states[j.uid]]_vars

\* the uploads that have downloaded to path p and whose transfer is not over
InFlight(p) ==
    {j \in JobSet : j.pc \in {"scheduled", "chunk", "backoff"} /\ TempPath(j.dict) = p}

\* C37 (as stated): a step removes a temporary file only if no upload that
\* downloaded to that path is still transferring.
C37_NoRemovalUnderAReader ==
    [][\A p \in disk : p \notin disk' => InFlight(p) = {}]_vars

\* C38: an upload command of an allowed user with a credential leaves the
\* user with the dict {'state': 'waiting_video'} and nothing else in it,
\* whatever the entry was before; a text of a user at waiting_video or with
\* no entry leaves user_states as it was
C38_UploadCommandStartsAfresh ==
    [][\A u \in Users :
          /\ (IsUserAllowed(u) /\ tokens[u] /\ HandleUploadCommand(u))
             => /\ user_states'[u] =
                      [state |-> "waiting_video", file |-> NoFile,
                       title |-> Absent, description |-> Absent]
                /\ \A v \in Users \ {u} : user_states'[v] = user_states[v]
          /\ \A t \in TripTexts :
                (user_states[u].state \in {"waiting_video", "none"} /\ HandleText(u, t))
                => user_states' = user_states]_vars

\* after an upload that was recorded the user sent the upload command and
\* then a text: the text was not understood and the entry is the fresh one
C38_Witness ==
    \E u \in Users :
        /\ last = [uid |-> u, ev |-> "text", msg |-> "dont_understand"]
        /\ user_states[u] = FreshState("waiting_video")
        /\ uploads # EmptyBag

\* the entries of the configured value: its pieces between commas, blanks
\* around them taken off, the empty ones left out
Entries(str) == {Strip(e) : e \in {x \in Members(Split(str)) : Strip(x) # <<>>}}

\* C39: once the list is parsed, every user id is allowed exactly when the
\* list is empty; if an entry of the configured value is not an integer the
\* list is empty (every id is allowed); if all its entries are integers the
\* list holds exactly their values, and with at least one entry exactly
\* these ids are allowed
C39_AllowListParsing ==
    c_pc = "parsed"
    => /\ (\A u \in AskedIds : IsUserAllowed(u)) <=> (allowed_users = {})
       /\ (\E e \in Entries(env) : ~IsIntLiteral(e))
          => (allowed_users = {} /\ (c_ask.uid # 0 => c_ask.allowed))
       /\ (\A e \in Entries(env) : IsIntLiteral(e))
          => /\ allowed_users = {IntValue(e) : e \in Entries(env)}
             /\ (c_ask.uid # 0 /\ Entries(env) # {})
                => (c_ask.allowed <=> \E e \in Entries(env) : IntValue(e) = c_ask.uid)

\* the value "1,x" was parsed: the list was discarded and user 2 is allowed
C39_Witness ==
    /\ c_pc = "parsed"
    /\ env = <<"1", ",", "x">>
    /\ allowed_users = {}
    /\ c_ask = [uid |-> 2, allowed |-> TRUE]

====
